---- MODULE Spec2Model ----
(***************************************************************************)
(* Order-intake workflow of the bakery storefront (src/api/src/App.tsx)    *)
(* and the earlier single-page cart (src/unnamed/part_000).                *)
(*                                                                         *)
(* Strings the code inspects character by character (phone numbers, ISO    *)
(* dates, time slots, the query string) are sequences of one-character     *)
(* strings, and so are product names and the items text of an order, which *)
(* the admin panel parses.  Strings the code only compares or stores       *)
(* (customer names, messages, product keys) are TLA+ strings.  JavaScript objects used as maps are    *)
(* sequences of [k, v]                                                     *)
(* entries held in the engine's own-property order.  Prices are whole      *)
(* numbers of currency units.                                              *)
(***************************************************************************)
EXTENDS Integers, Sequences, FiniteSets, TLC

VARIABLES
    \* ---- React state of App (src/api/src/App.tsx 47-114)
    page,                  \* 'schedule' | 'order' | 'success' | 'admin'
    selectedDate,          \* Date | null
    availability,          \* { [isoDate]: 'available' | 'sold_out' }
    fetchingAvailability,
    loading,
    phoneError,
    products,              \* Product[]
    orderData,             \* { name, phone, selectedItems, paymentMethod, time }
    \* ---- browser and network around App
    search,                \* window.location.search
    mount,                 \* position of the mount effect fetchData (177-197)
    inflight,              \* POST /api/orders requests awaiting their response
    alertMsg,              \* text of the alert() raised by the last handler, "" if none
    phoneInput,            \* e.target.value of the last phone change event
    \* ---- React state of the admin panel (54-63)
    settings,              \* { site_name, capacity_limit, admin_password?, ... }
    isAdminAuthenticated,
    adminPassword,
    adminTab,              \* 'orders' | 'products' | 'settings'
    adminOrders,           \* Order[]
    editingOrder,          \* Order | null
    editingItems,          \* { [productId]: quantity }
    \* ---- network and stores behind the admin panel
    settingsFetch,         \* fetchSettings of the mount effect: "pending" | "settled"
    adminCalls,            \* requests of the admin panel awaiting their response
    orderStore,            \* the Order Store behind /api/orders and /api/admin/orders
    \* ---- React state of the earlier App (src/unnamed/part_000 5-7)
    cart,
    legacyProducts,
    legacyLoading,
    \* ---- observation: the last handler that ran and the day it was given
    lastOp,
    lastDay,
    served                 \* a request carrying the draft in hand has succeeded
                           \* since the page was loaded, and no handler that
                           \* edits the draft has run since

appVars    == <<page, selectedDate, availability, fetchingAvailability, loading,
                phoneError, products, orderData>>
adminVars  == <<settings, isAdminAuthenticated, adminPassword, adminTab, adminOrders,
                editingOrder, editingItems>>
envVars    == <<search, mount, inflight, alertMsg, phoneInput>>
backVars   == <<settingsFetch, adminCalls, orderStore>>
legacyVars == <<cart, legacyProducts, legacyLoading>>
obsVars    == <<lastOp, lastDay, served>>
vars       == <<appVars, adminVars, envVars, backVars, legacyVars, obsVars>>

(***************************************************************************)
(* JavaScript values and objects                                           *)
(***************************************************************************)

DigitStr == <<"0", "1", "2", "3", "4", "5", "6", "7", "8", "9">>

IsDigit(c) == \E i \in 1..10 : DigitStr[i] = c

DigitVal(c) == (CHOOSE i \in 1..10 : DigitStr[i] = c) - 1

Min(a, b) == IF a < b THEN a ELSE b

\* A product id as it arrives from JSON: a number or a string.
Num(n) == [t |-> "number", n |-> n, s |-> ""]
Str(s) == [t |-> "string", n |-> 0, s |-> s]

\* String(x): a string is itself, a number its decimal numeral.
String(x) == IF x.t = "string" THEN x.s ELSE DigitStr[x.n + 1]

\* A key that is a canonical array index ("0".."9" here): such keys come
\* first, in ascending numeric order, in an object's own-property order.
IsIndexKey(k) == \E i \in 1..10 : DigitStr[i] = k
KeyIndex(k) == (CHOOSE i \in 1..10 : DigitStr[i] = k) - 1

NaN == [t |-> "number", n |-> -1, s |-> "NaN"]

\* Number(str) for an object key.
Number(k) == IF IsIndexKey(k) THEN Num(KeyIndex(k)) ELSE NaN

EmptyObj == <<>>

ObjKeys(o) == {o[i].k : i \in DOMAIN o}
ObjHas(o, k) == k \in ObjKeys(o)
ObjGet(o, k) == o[CHOOSE i \in DOMAIN o : o[i].k = k].v

\* o[k] = v: an existing key keeps its place; a new index key goes among the
\* index keys in ascending order; any other new key goes last.
ObjSet(o, k, v) ==
    IF ObjHas(o, k)
    THEN [i \in DOMAIN o |-> IF o[i].k = k THEN [k |-> k, v |-> v] ELSE o[i]]
    ELSE IF IsIndexKey(k)
    THEN LET before == Cardinality({i \in DOMAIN o :
                            IsIndexKey(o[i].k) /\ KeyIndex(o[i].k) < KeyIndex(k)})
         IN SubSeq(o, 1, before) \o <<[k |-> k, v |-> v]>> \o SubSeq(o, before + 1, Len(o))
    ELSE Append(o, [k |-> k, v |-> v])

\* delete o[k]
ObjDelete(o, k) ==
    LET Keep(e) == e.k # k IN SelectSeq(o, Keep)

\* products.find(pred) over ids: the first product whose id satisfies Match.
FindIndex(ps, Match(_)) ==
    IF \E i \in DOMAIN ps : Match(ps[i].id)
    THEN CHOOSE i \in DOMAIN ps : Match(ps[i].id) /\ \A j \in 1..(i - 1) : ~Match(ps[j].id)
    ELSE 0

(***************************************************************************)
(* Phone formatting and validation (App.tsx 248-268)                       *)
(***************************************************************************)

\* s.slice(a, b) with 0 <= a, b clamped to the length
Slice(s, a, b) == SubSeq(s, a + 1, Min(b, Len(s)))
\* s.slice(a)
SliceFrom(s, a) == SubSeq(s, a + 1, Len(s))

\* a plausible slip: the last group taken to the end of the digits
formatPhoneNumberKeepAll(value) ==
    IF value = <<>> THEN value
    ELSE LET phoneNumber == SelectSeq(value, IsDigit)
             phoneNumberLength == Len(phoneNumber)
         IN IF phoneNumberLength < 4 THEN phoneNumber
            ELSE IF phoneNumberLength < 7
            THEN <<"(">> \o Slice(phoneNumber, 0, 3) \o <<")", " ">> \o SliceFrom(phoneNumber, 3)
            ELSE <<"(">> \o Slice(phoneNumber, 0, 3) \o <<")", " ">>
                 \o Slice(phoneNumber, 3, 6) \o <<"-">> \o SliceFrom(phoneNumber, 6)

\* a plausible slip: the separator after the area code loses its space
formatPhoneNumberNoSpace(value) ==
    IF value = <<>> THEN value
    ELSE LET phoneNumber == SelectSeq(value, IsDigit)
             phoneNumberLength == Len(phoneNumber)
         IN IF phoneNumberLength < 4 THEN phoneNumber
            ELSE IF phoneNumberLength < 7
            THEN <<"(">> \o Slice(phoneNumber, 0, 3) \o <<")">> \o SliceFrom(phoneNumber, 3)
            ELSE <<"(">> \o Slice(phoneNumber, 0, 3) \o <<")">>
                 \o Slice(phoneNumber, 3, 6) \o <<"-">> \o Slice(phoneNumber, 6, 10)

formatPhoneNumber(value) ==
    IF value = <<>> THEN value
    ELSE LET phoneNumber == SelectSeq(value, IsDigit)
             phoneNumberLength == Len(phoneNumber)
         IN IF phoneNumberLength < 4 THEN phoneNumber
            ELSE IF phoneNumberLength < 7
            THEN <<"(">> \o Slice(phoneNumber, 0, 3) \o <<")", " ">> \o SliceFrom(phoneNumber, 3)
            ELSE <<"(">> \o Slice(phoneNumber, 0, 3) \o <<")", " ">>
                 \o Slice(phoneNumber, 3, 6) \o <<"-">> \o Slice(phoneNumber, 6, 10)

\* The atoms of /^\(\d{3}\) \d{3}-\d{4}$/ between the two anchors.
Lit(c) == [digit |-> FALSE, ch |-> c, n |-> 1]
Dig(n) == [digit |-> TRUE, ch |-> "", n |-> n]
phoneRegex == <<Lit("("), Dig(3), Lit(")"), Lit(" "), Dig(3), Lit("-"), Dig(4)>>

\* Matching atom a at position i of s (1-based): the position after the match,
\* or 0 when the atom does not match there.
MatchAtom(s, i, a) ==
    IF i + a.n - 1 > Len(s) THEN 0
    ELSE IF \A j \in i..(i + a.n - 1) :
                IF a.digit THEN IsDigit(s[j]) ELSE s[j] = a.ch
         THEN i + a.n
         ELSE 0

RECURSIVE MatchFrom(_, _, _, _)
MatchFrom(re, s, i, k) ==
    IF k > Len(re) THEN i
    ELSE LET next == MatchAtom(s, i, re[k])
         IN IF next = 0 THEN 0 ELSE MatchFrom(re, s, next, k + 1)

\* a plausible slip: the pattern without its closing anchor, /^\(\d{3}\) \d{3}-\d{4}/
validatePhoneNoEnd(phone) == MatchFrom(phoneRegex, phone, 1, 1) # 0

\* phoneRegex.test(phone): ^ pins the match to the start, $ to the end.
validatePhone(phone) == MatchFrom(phoneRegex, phone, 1, 1) = Len(phone) + 1

(***************************************************************************)
(* Dates (date-fns format / isSunday, new Date(string)) and the query      *)
(* string (URLSearchParams, history.pushState)                             *)
(***************************************************************************)

\* A Date, by its local calendar fields and hour; null; and Invalid Date.
MkDate(y, m, d, h) == [y |-> y, m |-> m, d |-> d, h |-> h]
NoDate == MkDate(0, 0, 0, 0)
InvalidDate == MkDate(0, 0, 0, -1)

IsLeap(y) == (y % 4 = 0 /\ y % 100 # 0) \/ y % 400 = 0

DaysInMonth(y, m) ==
    IF m = 2 THEN (IF IsLeap(y) THEN 29 ELSE 28)
    ELSE IF m \in {4, 6, 9, 11} THEN 30 ELSE 31

RECURSIVE DaysBeforeMonth(_, _)
DaysBeforeMonth(y, m) ==
    IF m <= 1 THEN 0 ELSE DaysBeforeMonth(y, m - 1) + DaysInMonth(y, m - 1)

\* Days from 2000-01-01 (a Saturday) to the date, for years from 2000 on.
LeapsBefore(y) == ((y - 1) \div 4) - ((y - 1) \div 100) + ((y - 1) \div 400)
DayNumber(date) ==
    365 * (date.y - 2000) + (LeapsBefore(date.y) - LeapsBefore(2000))
    + DaysBeforeMonth(date.y, date.m) + (date.d - 1)

\* date.getDay(): 0 is Sunday.
GetDay(date) == (6 + DayNumber(date)) % 7

isSunday(date) == GetDay(date) = 0

Pad2(n) == <<DigitStr[(n \div 10) + 1], DigitStr[(n % 10) + 1]>>
Pad4(n) == Pad2(n \div 100) \o Pad2(n % 100)

\* a plausible slip: month and day written in the other order, 'yyyy-dd-MM'
formatIsoDayFirst(date) == Pad4(date.y) \o <<"-">> \o Pad2(date.d) \o <<"-">> \o Pad2(date.m)

\* format(date, 'yyyy-MM-dd')
formatIso(date) == Pad4(date.y) \o <<"-">> \o Pad2(date.m) \o <<"-">> \o Pad2(date.d)

Num2(s, i) == 10 * DigitVal(s[i]) + DigitVal(s[i + 1])

\* new Date(`${dateParam}T12:00:00`): the set of Dates an engine may produce.
\* A well-formed YYYY-MM-DD of a real day is noon of that day, local time.  A
\* day number past the end of its month (02-30) is read by some engines as
\* the overflow into the next month and by others as Invalid Date.  Anything
\* else is Invalid Date.
ParseDateParam(s) ==
    IF /\ Len(s) = 10
       /\ \A i \in {1, 2, 3, 4, 6, 7, 9, 10} : IsDigit(s[i])
       /\ s[5] = "-" /\ s[8] = "-"
    THEN LET y == 100 * Num2(s, 1) + Num2(s, 3)
             m == Num2(s, 6)
             d == Num2(s, 9)
         IN IF m \in 1..12 /\ d \in 1..DaysInMonth(y, m)
            THEN {MkDate(y, m, d, 12)}
            ELSE IF m \in 1..11 /\ d \in (DaysInMonth(y, m) + 1)..31
            THEN {InvalidDate, MkDate(y, m + 1, d - DaysInMonth(y, m), 12)}
            ELSE {InvalidDate}
    ELSE {InvalidDate}

\* The 21 half-hour slots '08:00' .. '18:00' of TIME_SLOTS, in order.
TIME_SLOTS ==
    [i \in 1..21 |-> Pad2(8 + ((i - 1) \div 2)) \o <<":">> \o Pad2(30 * ((i - 1) % 2))]

\* TIME_SLOTS.includes(t)
IsTimeSlot(t) == \E i \in DOMAIN TIME_SLOTS : TIME_SLOTS[i] = t

\* The pieces of s between occurrences of sep.
RECURSIVE SplitOn(_, _)
SplitOn(s, sep) ==
    IF \E i \in DOMAIN s : s[i] = sep
    THEN LET i == CHOOSE i \in DOMAIN s : s[i] = sep /\ \A j \in 1..(i - 1) : s[j] # sep
         IN <<SubSeq(s, 1, i - 1)>> \o SplitOn(SubSeq(s, i + 1, Len(s)), sep)
    ELSE <<s>>

\* application/x-www-form-urlencoded decoding of one name or value; of the
\* characters used here only '+' is changed.
FormDecode(s) == [i \in DOMAIN s |-> IF s[i] = "+" THEN " " ELSE s[i]]

\* new URLSearchParams(search): the list of [name, value] pairs.
URLSearchParams(q) ==
    LET body == IF q # <<>> /\ q[1] = "?" THEN Tail(q) ELSE q
        NonEmpty(piece) == piece # <<>>
        pieces == SelectSeq(SplitOn(body, "&"), NonEmpty)
        Pair(piece) ==
            IF \E i \in DOMAIN piece : piece[i] = "="
            THEN LET i == CHOOSE i \in DOMAIN piece :
                              piece[i] = "=" /\ \A j \in 1..(i - 1) : piece[j] # "="
                 IN [name |-> FormDecode(SubSeq(piece, 1, i - 1)),
                     value |-> FormDecode(SubSeq(piece, i + 1, Len(piece)))]
            ELSE [name |-> FormDecode(piece), value |-> <<>>]
    IN [i \in DOMAIN pieces |-> Pair(pieces[i])]

\* params.get(name): the first value under that name; null and '' are both
\* falsy and are both <<>> here.
ParamsGet(params, name) ==
    IF \E i \in DOMAIN params : params[i].name = name
    THEN params[CHOOSE i \in DOMAIN params :
                    params[i].name = name /\ \A j \in 1..(i - 1) : params[j].name # name].value
    ELSE <<>>

KeyData == <<"d", "a", "t", "a">>
KeyHora == <<"h", "o", "r", "a">>

\* `?data=${dateStr}&hora=${time}`
OrderQuery(dateStr, time) ==
    <<"?">> \o KeyData \o <<"=">> \o dateStr \o <<"&">> \o KeyHora \o <<"=">> \o time

(***************************************************************************)
(* Cart and total (App.tsx 116-121, 235-246; part_000 20-36)               *)
(***************************************************************************)

Product(id, name, price) == [id |-> id, name |-> name, price |-> price]

\* a plausible slip: the ids compared without String(), p.id === id
ItemPriceStrict(ps, key) ==
    LET Match(pid) == pid = Str(key)
        i == FindIndex(ps, Match)
    IN IF i = 0 THEN 0 ELSE ps[i].price

\* products.find(p => String(p.id) === String(id)), then product ? product.price : 0
ItemPrice(ps, key) ==
    LET Match(pid) == String(pid) = key
        i == FindIndex(ps, Match)
    IN IF i = 0 THEN 0 ELSE ps[i].price

\* Object.entries(items).reduce((acc, [id, qty]) => acc + price * qty, 0)
RECURSIVE Total(_, _)
Total(items, ps) ==
    IF items = <<>> THEN 0
    ELSE LET n == Len(items)
         IN Total(SubSeq(items, 1, n - 1), ps) + ItemPrice(ps, items[n].k) * items[n].v

total == Total(orderData.selectedItems, products)

\* a plausible slip: the emptied entry is kept at quantity zero
updateItemQuantityKeepZero(prev, id, delta) ==
    LET key == String(id)
        newQty == (IF ObjHas(prev.selectedItems, key)
                   THEN ObjGet(prev.selectedItems, key) ELSE 0) + delta
    IN [prev EXCEPT !.selectedItems =
            IF newQty < 0 THEN ObjDelete(prev.selectedItems, key)
            ELSE ObjSet(prev.selectedItems, key, newQty)]

\* the updater passed to setOrderData by updateItemQuantity(id, delta)
updateItemQuantity(prev, id, delta) ==
    LET key == String(id)
        newQty == (IF ObjHas(prev.selectedItems, key)
                   THEN ObjGet(prev.selectedItems, key) ELSE 0) + delta
    IN [prev EXCEPT !.selectedItems =
            IF newQty <= 0 THEN ObjDelete(prev.selectedItems, key)
            ELSE ObjSet(prev.selectedItems, key, newQty)]

\* the updater passed to setCart by addToCart(id)
addToCart(prev, id) ==
    LET key == String(id)
    IN ObjSet(prev, key, (IF ObjHas(prev, key) THEN ObjGet(prev, key) ELSE 0) + 1)

\* the updater passed to setCart by removeFromCart(id)
removeFromCart(prev, id) ==
    LET key == String(id)
    IN IF ObjHas(prev, key) /\ ObjGet(prev, key) > 1
       THEN ObjSet(prev, key, ObjGet(prev, key) - 1)
       ELSE ObjDelete(prev, key)

\* products.find(p => p.id === id || p.id === Number(id)), then (product?.price || 0)
LegacyItemPrice(ps, key) ==
    LET Match(pid) == pid = Str(key) \/ pid = Number(key)
        i == FindIndex(ps, Match)
    IN IF i = 0 THEN 0 ELSE ps[i].price

RECURSIVE LegacyTotal(_, _)
LegacyTotal(items, ps) ==
    IF items = <<>> THEN 0
    ELSE LET n == Len(items)
         IN LegacyTotal(SubSeq(items, 1, n - 1), ps)
            + LegacyItemPrice(ps, items[n].k) * items[n].v

legacyTotal == LegacyTotal(cart, legacyProducts)

(***************************************************************************)
(* The workflow's state and handlers (App.tsx)                             *)
(***************************************************************************)

\* useState initial values (47-63, 108-114)
InitialOrderData ==
    [name |-> "", phone |-> <<>>, selectedItems |-> EmptyObj,
     paymentMethod |-> "zelle", time |-> <<>>]

\* useState of settings (54-57)
InitialSettings ==
    <<[k |-> "site_name", v |-> "vovosbaked"], [k |-> "capacity_limit", v |-> "10"]>>

\* null of editingOrder (62)
NoOrder == [id |-> 0]

\* useState of the admin panel (54-63)
InitAdmin ==
    /\ settings = InitialSettings
    /\ isAdminAuthenticated = FALSE
    /\ adminPassword = ""
    /\ adminTab = "orders"
    /\ adminOrders = <<>>
    /\ editingOrder = NoOrder
    /\ editingItems = EmptyObj

InitApp ==
    /\ page = "schedule"
    /\ selectedDate = NoDate
    /\ availability = EmptyObj
    /\ fetchingAvailability = TRUE
    /\ loading = FALSE
    /\ phoneError = ""
    /\ products = <<>>
    /\ orderData = InitialOrderData

\* part_000 5-7
InitLegacy ==
    /\ cart = EmptyObj
    /\ legacyProducts = <<>>
    /\ legacyLoading = TRUE

\* the handlers that write the draft, and the loads of the page
DraftOps ==
    {"urlSync", "DayClick", "SlotClick", "NameChange", "handlePhoneChange", "PaymentClick",
     "updateItemQuantity(+1)", "updateItemQuantity(-1)"}
LoadOps == {"reload", "NewBookingClick"}

Obs(op, day, msg) ==
    /\ lastOp' = op
    /\ lastDay' = day
    /\ alertMsg' = msg
    /\ served' = IF op \in DraftOps \cup LoadOps THEN FALSE ELSE served

MsgSelectTime == "Por favor, selecione um horário."
MsgPhoneError == "Por favor, insira um telefone válido no formato (XXX) XXX-XXXX"
MsgOrderFailed == "Erro ao processar pedido"
MsgConnection == "Erro de conexão"

\* availability[dateStr] === 'sold_out'
SoldOut(date) ==
    LET dateStr == formatIso(date)
    IN ObjHas(availability, dateStr) /\ ObjGet(availability, dateStr) = "sold_out"

\* ---- mount effects (177-216)

\* fetchProducts resolved with data (123-127), first of the awaits of fetchData
FetchProductsDone(data) ==
    /\ mount = "fetching"
    /\ products' = data
    /\ mount' = "sync"
    /\ UNCHANGED <<page, selectedDate, availability, fetchingAvailability, loading,
                   phoneError, orderData, search, inflight, phoneInput, adminVars, backVars,
                   legacyVars>>
    /\ Obs("fetchProducts", NoDate, "")

\* fetchProducts failed: the catch logs and leaves products alone (128-130)
FetchProductsFail ==
    /\ mount = "fetching"
    /\ mount' = "sync"
    /\ UNCHANGED <<appVars, search, inflight, phoneInput, adminVars, backVars,
                   legacyVars>>
    /\ Obs("fetchProducts", NoDate, "")

\* a plausible slip: the Sunday test left out
urlSyncNoSundayTest(q) ==
    LET params == URLSearchParams(q)
        dateParam == ParamsGet(params, KeyData)
        timeParam == ParamsGet(params, KeyHora)
        same == [selectedDate |-> selectedDate, orderData |-> orderData, page |-> page]
    IN IF dateParam # <<>>
       THEN {IF date # InvalidDate
             THEN IF timeParam # <<>> /\ IsTimeSlot(timeParam)
                  THEN [selectedDate |-> date,
                        orderData |-> [orderData EXCEPT !.time = timeParam],
                        page |-> "order"]
                  ELSE [same EXCEPT !.selectedDate = date]
             ELSE same : date \in ParseDateParam(dateParam)}
       ELSE {same}

\* The URL sync of fetchData (182-194): the states it may leave in selectedDate,
\* orderData and page when the query string is q.
urlSync(q) ==
    LET params == URLSearchParams(q)
        dateParam == ParamsGet(params, KeyData)
        timeParam == ParamsGet(params, KeyHora)
        same == [selectedDate |-> selectedDate, orderData |-> orderData, page |-> page]
    IN IF dateParam # <<>>
       THEN {IF date # InvalidDate /\ ~isSunday(date)
             THEN IF timeParam # <<>> /\ IsTimeSlot(timeParam)
                  THEN [selectedDate |-> date,
                        orderData |-> [orderData EXCEPT !.time = timeParam],
                        page |-> "order"]
                  ELSE [same EXCEPT !.selectedDate = date]
             ELSE same : date \in ParseDateParam(dateParam)}
       ELSE {same}

UrlSync ==
    /\ mount = "sync"
    /\ settingsFetch = "settled"
    /\ \E r \in urlSync(search) :
          /\ selectedDate' = r.selectedDate
          /\ orderData' = r.orderData
          /\ page' = r.page
    /\ mount' = "done"
    /\ UNCHANGED <<availability, fetchingAvailability, loading, phoneError, products,
                   search, inflight, phoneInput, adminVars, backVars,
                   legacyVars>>
    /\ Obs("urlSync", NoDate, "")

\* fetchAvailability resolved with data (206-208, 211-213)
FetchAvailabilityDone(data) ==
    /\ fetchingAvailability
    /\ availability' = data
    /\ fetchingAvailability' = FALSE
    /\ UNCHANGED <<page, selectedDate, loading, phoneError, products, orderData,
                   search, mount, inflight, phoneInput, adminVars, backVars,
                   legacyVars>>
    /\ Obs("fetchAvailability", NoDate, "")

\* fetchAvailability failed (209-213)
FetchAvailabilityFail ==
    /\ fetchingAvailability
    /\ fetchingAvailability' = FALSE
    /\ UNCHANGED <<page, selectedDate, availability, loading, phoneError, products,
                   orderData, search, mount, inflight, phoneInput, adminVars, backVars,
                   legacyVars>>
    /\ Obs("fetchAvailability", NoDate, "")

\* the admin panel's useState values start over with the page (54-63), and
\* so does the settings fetch of the mount effect
AdminStartsOver ==
    /\ settings' = InitialSettings
    /\ isAdminAuthenticated' = FALSE
    /\ adminPassword' = ""
    /\ adminTab' = "orders"
    /\ adminOrders' = <<>>
    /\ editingOrder' = NoOrder
    /\ editingItems' = EmptyObj
    /\ settingsFetch' = "pending"
    /\ adminCalls' = <<>>

\* The page is loaded again: every useState starts over, the location stays,
\* and the responses still owed to the old page are never delivered.
Reload ==
    /\ page' = "schedule"
    /\ selectedDate' = NoDate
    /\ availability' = EmptyObj
    /\ fetchingAvailability' = TRUE
    /\ loading' = FALSE
    /\ phoneError' = ""
    /\ products' = <<>>
    /\ orderData' = InitialOrderData
    /\ mount' = "fetching"
    /\ inflight' = <<>>
    /\ phoneInput' = <<>>
    /\ AdminStartsOver
    /\ UNCHANGED <<search, orderStore, legacyVars>>
    /\ Obs("reload", NoDate, "")

\* ---- scheduling step (218-233, 914-982)

\* "today" of minDate={new Date()}
Today == MkDate(2026, 2, 27, 0)

\* filterDate of the DatePicker (919)
filterDate(date) == ~isSunday(date)

\* a plausible slip: the sold-out test left out
handleDateSelectNoSoldOut(date) ==
    IF date = NoDate THEN selectedDate
    ELSE date

\* handleDateSelect(date): the value selectedDate has afterwards (218-223)
handleDateSelect(date) ==
    IF date = NoDate THEN selectedDate
    ELSE IF SoldOut(date) THEN selectedDate
    ELSE date

\* a plausible slip: a change of day made to start the slot choice over
DayClickClearsSlot(d) ==
    /\ page = "schedule"
    /\ selectedDate' =
          IF filterDate(d) /\ DayNumber(d) >= DayNumber(Today)
          THEN handleDateSelect(MkDate(d.y, d.m, d.d,
                                       IF selectedDate # NoDate THEN selectedDate.h ELSE 0))
          ELSE selectedDate
    /\ orderData' = [orderData EXCEPT !.time = <<>>]
    /\ UNCHANGED <<page, availability, fetchingAvailability, loading, phoneError,
                   products, search, mount, inflight, phoneInput, adminVars, backVars,
                   legacyVars>>
    /\ Obs("DayClick", d, "")

\* A click on day d of the inline DatePicker (914-920).  The picker ignores a
\* day before minDate or refused by filterDate; otherwise it calls onChange
\* with that day, at the time of day of the date already selected, if any,
\* and at midnight if none.
DayClick(d) ==
    /\ page = "schedule"
    /\ selectedDate' =
          IF filterDate(d) /\ DayNumber(d) >= DayNumber(Today)
          THEN handleDateSelect(MkDate(d.y, d.m, d.d,
                                       IF selectedDate # NoDate THEN selectedDate.h ELSE 0))
          ELSE selectedDate
    /\ UNCHANGED <<page, availability, fetchingAvailability, loading, phoneError,
                   products, orderData, search, mount, inflight, phoneInput, adminVars, backVars,
                   legacyVars>>
    /\ Obs("DayClick", d, "")

\* A click on a slot button (958-960), rendered once a date that is not sold
\* out is selected (954).
SlotClick(time) ==
    /\ page = "schedule"
    /\ selectedDate # NoDate /\ ~SoldOut(selectedDate)
    /\ orderData' = [orderData EXCEPT !.time = time]
    /\ UNCHANGED <<page, selectedDate, availability, fetchingAvailability, loading,
                   phoneError, products, search, mount, inflight, phoneInput, adminVars, backVars,
                   legacyVars>>
    /\ Obs("SlotClick", NoDate, "")

\* a plausible slip: the advance made on the date alone
proceedToOrderNoSlotTest ==
    IF selectedDate # NoDate
    THEN /\ search' = OrderQuery(formatIso(selectedDate), orderData.time)
         /\ page' = "order"
         /\ Obs("proceedToOrder", NoDate, "")
    ELSE /\ UNCHANGED <<search, page>>
         /\ Obs("proceedToOrder", NoDate, "")

\* proceedToOrder (225-233)
proceedToOrder ==
    IF selectedDate # NoDate /\ orderData.time # <<>>
    THEN /\ search' = OrderQuery(formatIso(selectedDate), orderData.time)
         /\ page' = "order"
         /\ Obs("proceedToOrder", NoDate, "")
    ELSE IF selectedDate # NoDate /\ orderData.time = <<>>
    THEN /\ UNCHANGED <<search, page>>
         /\ Obs("proceedToOrder", NoDate, MsgSelectTime)
    ELSE /\ UNCHANGED <<search, page>>
         /\ Obs("proceedToOrder", NoDate, "")

\* disabled={...} of the continue button (977)
ContinueDisabled ==
    selectedDate = NoDate \/ orderData.time = <<>> \/ SoldOut(selectedDate)

\* A click on the continue button (976-982)
ContinueClick ==
    /\ page = "schedule"
    /\ ~ContinueDisabled
    /\ proceedToOrder
    /\ UNCHANGED <<selectedDate, availability, fetchingAvailability, loading, phoneError,
                   products, orderData, mount, inflight, phoneInput, adminVars, backVars,
                   legacyVars>>

\* proceedToOrder called on the scheduling step whatever the button's state
ProceedToOrderCall ==
    /\ page = "schedule"
    /\ proceedToOrder
    /\ UNCHANGED <<selectedDate, availability, fetchingAvailability, loading, phoneError,
                   products, orderData, mount, inflight, phoneInput, adminVars, backVars,
                   legacyVars>>

\* a plausible slip: going back made to start the draft over
BackClickResets ==
    /\ page = "order"
    /\ search' = <<>>
    /\ page' = "schedule"
    /\ orderData' = [InitialOrderData EXCEPT !.time = orderData.time]
    /\ UNCHANGED <<selectedDate, availability, fetchingAvailability, loading, phoneError,
                   products, mount, inflight, phoneInput, adminVars, backVars,
                   legacyVars>>
    /\ Obs("BackClick", NoDate, "")

\* The back link of the order step (1008-1012)
BackClick ==
    /\ page = "order"
    /\ search' = <<>>
    /\ page' = "schedule"
    /\ UNCHANGED <<selectedDate, availability, fetchingAvailability, loading, phoneError,
                   products, orderData, mount, inflight, phoneInput, adminVars, backVars,
                   legacyVars>>
    /\ Obs("BackClick", NoDate, "")

\* The header's admin toggle (372-376)
AdminToggle ==
    /\ adminPassword' = ""
    /\ page' = (IF page = "admin" THEN "schedule" ELSE "admin")
    /\ UNCHANGED <<selectedDate, availability, fetchingAvailability, loading, phoneError,
                   products, orderData, search, mount, inflight, phoneInput,
                   settings, isAdminAuthenticated, adminTab, adminOrders, editingOrder,
                   editingItems, backVars, legacyVars>>
    /\ Obs("AdminToggle", NoDate, "")

\* ---- order step (235-325, 1024-1149)

\* onChange of the name input (1032)
NameChange(value) ==
    /\ page = "order"
    /\ orderData' = [orderData EXCEPT !.name = value]
    /\ UNCHANGED <<page, selectedDate, availability, fetchingAvailability, loading,
                   phoneError, products, search, mount, inflight, phoneInput, adminVars, backVars,
                   legacyVars>>
    /\ Obs("NameChange", NoDate, "")

\* handlePhoneChange with e.target.value = value (259-263)
handlePhoneChange(value) ==
    /\ page = "order"
    /\ phoneInput' = value
    /\ orderData' = [orderData EXCEPT !.phone = formatPhoneNumber(value)]
    /\ phoneError' = ""
    /\ UNCHANGED <<page, selectedDate, availability, fetchingAvailability, loading,
                   products, search, mount, inflight, adminVars, backVars,
                   legacyVars>>
    /\ Obs("handlePhoneChange", NoDate, "")

\* The field shows orderData.phone; a key press puts character c after its
\* first i characters.
PhoneType(i, c) ==
    /\ i \in 0..Len(orderData.phone)
    /\ handlePhoneChange(SubSeq(orderData.phone, 1, i) \o <<c>>
                         \o SubSeq(orderData.phone, i + 1, Len(orderData.phone)))

\* ... and a delete removes its i-th character.
PhoneDelete(i) ==
    /\ i \in 1..Len(orderData.phone)
    /\ handlePhoneChange(SubSeq(orderData.phone, 1, i - 1)
                         \o SubSeq(orderData.phone, i + 1, Len(orderData.phone)))

\* ... and a paste over the whole field leaves the pasted text.
PhonePaste(text) == handlePhoneChange(text)

\* The payment buttons (1063, 1076)
PaymentClick(method) ==
    /\ page = "order"
    /\ orderData' = [orderData EXCEPT !.paymentMethod = method]
    /\ UNCHANGED <<page, selectedDate, availability, fetchingAvailability, loading,
                   phoneError, products, search, mount, inflight, phoneInput, adminVars, backVars,
                   legacyVars>>
    /\ Obs("PaymentClick", NoDate, "")

QtyOf(items, id) == IF ObjHas(items, String(id)) THEN ObjGet(items, String(id)) ELSE 0

\* The - and + buttons of the i-th product card (1109-1123)
ItemClick(i, delta) ==
    /\ page = "order"
    /\ i \in DOMAIN products
    /\ orderData' = updateItemQuantity(orderData, products[i].id, delta)
    /\ UNCHANGED <<page, selectedDate, availability, fetchingAvailability, loading,
                   phoneError, products, search, mount, inflight, phoneInput, adminVars, backVars,
                   legacyVars>>
    /\ Obs(IF delta = 1 THEN "updateItemQuantity(+1)" ELSE "updateItemQuantity(-1)", NoDate, "")

\* the text a template literal makes of undefined
Undefined == <<"u", "n", "d", "e", "f", "i", "n", "e", "d">>

\* p?.name of the product found for a key (280-281), as `${...}` writes it;
\* a name is the sequence of its characters
ProductName(ps, key) ==
    LET Match(pid) == String(pid) = key
        i == FindIndex(ps, Match)
    IN IF i = 0 THEN Undefined ELSE ps[i].name

\* `${qty}`: the decimal numeral of a quantity, one character per digit
RECURSIVE Decimal(_)
Decimal(n) ==
    IF n < 10 THEN <<DigitStr[n + 1]>>
    ELSE Decimal(n \div 10) \o <<DigitStr[(n % 10) + 1]>>

\* `${qty}x ${p?.name}`: the numeral, 'x', a space, the name
ItemLine(qty, name) == Decimal(qty) \o <<"x", " ">> \o name

\* lines.join(sep)
RECURSIVE Join(_, _)
Join(lines, sep) ==
    IF lines = <<>> THEN <<>>
    ELSE IF Len(lines) = 1 THEN lines[1]
    ELSE lines[1] \o sep \o Join(Tail(lines), sep)

LineBreak == <<"\n">>

\* a plausible slip: the lines made from the catalog, product by product
itemsSummaryCatalogOrder ==
    LET InCart(p) == ObjHas(orderData.selectedItems, String(p.id))
        chosen == SelectSeq(products, InCart)
    IN Join([i \in DOMAIN chosen |->
                ItemLine(ObjGet(orderData.selectedItems, String(chosen[i].id)),
                         chosen[i].name)],
            LineBreak)

\* Object.entries(items).map(([id, qty]) => `${qty}x ${p?.name}`) (279-282, 330-333)
ItemLines(items, ps) ==
    [i \in DOMAIN items |-> ItemLine(items[i].v, ProductName(ps, items[i].k))]

\* Object.entries(orderData.selectedItems).map(...).join('\n') (279-282)
itemsSummary == Join(ItemLines(orderData.selectedItems, products), LineBreak)

\* The body of POST /api/orders (299-307)
OrderRequest ==
    [customer_name |-> orderData.name,
     customer_phone |-> orderData.phone,
     order_date |-> formatIso(selectedDate),
     order_time |-> orderData.time,
     items |-> itemsSummary,
     total |-> total,
     payment_method |-> orderData.paymentMethod]

\* a plausible slip: the test for an empty total left out
submitOrderNoTotalTest ==
    IF selectedDate = NoDate
    THEN /\ UNCHANGED <<phoneError, loading, inflight>>
         /\ Obs("submitOrder", NoDate, "")
    ELSE IF ~validatePhone(orderData.phone)
    THEN /\ phoneError' = MsgPhoneError
         /\ UNCHANGED <<loading, inflight>>
         /\ Obs("submitOrder", NoDate, "")
    ELSE /\ loading' = TRUE
         /\ inflight' = Append(inflight, OrderRequest)
         /\ UNCHANGED phoneError
         /\ Obs("submitOrder", NoDate, "")

\* submitOrder up to its await (270-308)
submitOrder ==
    IF selectedDate = NoDate \/ total = 0
    THEN /\ UNCHANGED <<phoneError, loading, inflight>>
         /\ Obs("submitOrder", NoDate, "")
    ELSE IF ~validatePhone(orderData.phone)
    THEN /\ phoneError' = MsgPhoneError
         /\ UNCHANGED <<loading, inflight>>
         /\ Obs("submitOrder", NoDate, "")
    ELSE /\ loading' = TRUE
         /\ inflight' = Append(inflight, OrderRequest)
         /\ UNCHANGED phoneError
         /\ Obs("submitOrder", NoDate, "")

\* a plausible slip: the button disabled on an empty total only
SubmitDisabledNoLoading == total = 0

\* disabled={loading || total === 0} of the submit button (1145)
SubmitDisabled == loading \/ total = 0

\* a plausible slip: the name and phone inputs not marked required
SubmitClickNoRequired ==
    /\ page = "order"
    /\ ~SubmitDisabled
    /\ submitOrder
    /\ UNCHANGED <<page, selectedDate, availability, fetchingAvailability, products,
                   orderData, search, mount, phoneInput, adminVars, backVars,
                   legacyVars>>

\* The form is submitted through its button (1024, 1143-1149): the button is
\* enabled and the two required inputs (1029, 1040) are filled in.
SubmitClick ==
    /\ page = "order"
    /\ ~SubmitDisabled
    /\ orderData.name # "" /\ orderData.phone # <<>>
    /\ submitOrder
    /\ UNCHANGED <<page, selectedDate, availability, fetchingAvailability, products,
                   orderData, search, mount, phoneInput, adminVars, backVars,
                   legacyVars>>

\* The button is pressed with a required input empty (1029, 1040): the
\* browser points at the input and raises no submit event.
SubmitBlocked ==
    /\ page = "order"
    /\ ~SubmitDisabled
    /\ orderData.name = "" \/ orderData.phone = <<>>
    /\ UNCHANGED <<appVars, adminVars, backVars, search, mount, inflight, phoneInput, adminVars, backVars,
                   legacyVars>>
    /\ Obs("SubmitBlocked", NoDate, "")

\* submitOrder called with a submit event whatever the form's state
SubmitOrderCall ==
    /\ submitOrder
    /\ UNCHANGED <<page, selectedDate, availability, fetchingAvailability, products,
                   orderData, search, mount, phoneInput, adminVars, backVars,
                   legacyVars>>

Without(q, i) == SubSeq(q, 1, i - 1) \o SubSeq(q, i + 1, Len(q))

\* a plausible slip: the draft started over once the order is saved
OrderAcceptedClearsDraft(i) ==
    /\ i \in DOMAIN inflight
    /\ page' = "success"
    /\ loading' = FALSE
    /\ inflight' = Without(inflight, i)
    /\ orderData' = InitialOrderData
    /\ UNCHANGED <<selectedDate, availability, fetchingAvailability, phoneError, products,
                   search, mount, phoneInput, adminVars, backVars,
                   legacyVars>>
    /\ lastOp' = "OrderAccepted"
    /\ lastDay' = NoDate
    /\ alertMsg' = ""
    /\ served' = FALSE

\* The i-th outstanding request is answered with a success status (311-313, 322-324)
OrderAccepted(i) ==
    /\ i \in DOMAIN inflight
    /\ page' = "success"
    /\ loading' = FALSE
    /\ inflight' = Without(inflight, i)
    /\ UNCHANGED <<selectedDate, availability, fetchingAvailability, phoneError, products,
                   orderData, search, mount, phoneInput, adminVars, backVars,
                   legacyVars>>
    /\ lastOp' = "OrderAccepted"
    /\ lastDay' = NoDate
    /\ alertMsg' = ""
    /\ served' = (selectedDate # NoDate /\ inflight[i] = OrderRequest)

\* a plausible slip: the server's message left aside for the fixed one
OrderRejectedGeneric(i, body) ==
    /\ i \in DOMAIN inflight
    /\ loading' = FALSE
    /\ inflight' = Without(inflight, i)
    /\ UNCHANGED <<page, selectedDate, availability, fetchingAvailability, phoneError,
                   products, orderData, search, mount, phoneInput, adminVars, backVars,
                   legacyVars>>
    /\ Obs("OrderRejected", NoDate,
           IF ~body.json THEN MsgConnection ELSE MsgOrderFailed)

\* ... with a failure status and a body: body.json says whether it parses as
\* JSON, body.error is the error member ("" when it has none) (314-324)
OrderRejected(i, body) ==
    /\ i \in DOMAIN inflight
    /\ loading' = FALSE
    /\ inflight' = Without(inflight, i)
    /\ UNCHANGED <<page, selectedDate, availability, fetchingAvailability, phoneError,
                   products, orderData, search, mount, phoneInput, adminVars, backVars,
                   legacyVars>>
    /\ Obs("OrderRejected", NoDate,
           IF ~body.json THEN MsgConnection
           ELSE IF body.error # "" THEN body.error
           ELSE MsgOrderFailed)

\* a plausible slip: setLoading(false) left out where the fetch throws
OrderTransportFailureKeepsLoading(i) ==
    /\ i \in DOMAIN inflight
    /\ inflight' = Without(inflight, i)
    /\ UNCHANGED <<page, selectedDate, availability, fetchingAvailability, loading,
                   phoneError, products, orderData, search, mount, phoneInput, adminVars,
                   backVars, legacyVars>>
    /\ Obs("OrderTransportFailure", NoDate, MsgConnection)

\* a plausible slip: the cart emptied when the request could not be sent
OrderTransportFailureEmptiesCart(i) ==
    /\ i \in DOMAIN inflight
    /\ loading' = FALSE
    /\ inflight' = Without(inflight, i)
    /\ orderData' = [orderData EXCEPT !.selectedItems = EmptyObj]
    /\ UNCHANGED <<page, selectedDate, availability, fetchingAvailability, phoneError,
                   products, search, mount, phoneInput, adminVars, backVars,
                   legacyVars>>
    /\ Obs("OrderTransportFailure", NoDate, MsgConnection)

\* ... or the fetch itself throws (319-324)
OrderTransportFailure(i) ==
    /\ i \in DOMAIN inflight
    /\ loading' = FALSE
    /\ inflight' = Without(inflight, i)
    /\ UNCHANGED <<page, selectedDate, availability, fetchingAvailability, phoneError,
                   products, orderData, search, mount, phoneInput, adminVars, backVars,
                   legacyVars>>
    /\ Obs("OrderTransportFailure", NoDate, MsgConnection)

\* The button of the confirmation step that starts over (1227-1231):
\* pushState to '/', then window.location.reload()
NewBookingClick ==
    /\ page = "success"
    /\ page' = "schedule"
    /\ selectedDate' = NoDate
    /\ availability' = EmptyObj
    /\ fetchingAvailability' = TRUE
    /\ loading' = FALSE
    /\ phoneError' = ""
    /\ products' = <<>>
    /\ orderData' = InitialOrderData
    /\ search' = <<>>
    /\ mount' = "fetching"
    /\ inflight' = <<>>
    /\ phoneInput' = <<>>
    /\ AdminStartsOver
    /\ UNCHANGED <<orderStore, legacyVars>>
    /\ Obs("NewBookingClick", NoDate, "")

\* The admin panel saves or deletes a product and fetchProducts resolves with
\* the store's new list (702-727, 764-771)
AdminProductsRefetch(data) ==
    /\ page = "admin"
    /\ products' = data
    /\ UNCHANGED <<page, selectedDate, availability, fetchingAvailability, loading,
                   phoneError, orderData, search, mount, inflight, phoneInput, adminVars, backVars,
                   legacyVars>>
    /\ Obs("fetchProducts", NoDate, "")

\* ---- settings and the admin gate (133-157, 372-458)

\* fetchSettings of the mount effect resolved with data (133-137, 179)
FetchSettingsDone(data) ==
    /\ settingsFetch = "pending"
    /\ settings' = data
    /\ settingsFetch' = "settled"
    /\ UNCHANGED <<appVars, search, mount, inflight, phoneInput, isAdminAuthenticated,
                   adminPassword, adminTab, adminOrders, editingOrder, editingItems,
                   adminCalls, orderStore, legacyVars>>
    /\ Obs("fetchSettings", NoDate, "")

\* ... or failed (138-140)
FetchSettingsFail ==
    /\ settingsFetch = "pending"
    /\ settingsFetch' = "settled"
    /\ UNCHANGED <<appVars, search, mount, inflight, phoneInput, adminVars, adminCalls,
                   orderStore, legacyVars>>
    /\ Obs("fetchSettings", NoDate, "")

\* The settings tab saves and fetchSettings resolves with the store's
\* settings (858-869)
AdminSettingsRefetch(data) ==
    /\ page = "admin"
    /\ isAdminAuthenticated
    /\ settingsFetch = "settled"
    /\ settings' = data
    /\ UNCHANGED <<appVars, search, mount, inflight, phoneInput, isAdminAuthenticated,
                   adminPassword, adminTab, adminOrders, editingOrder, editingItems,
                   backVars, legacyVars>>
    /\ Obs("fetchSettings", NoDate, "")

\* onChange of the password input (410-414)
PasswordChange(value) ==
    /\ page = "admin"
    /\ ~isAdminAuthenticated
    /\ adminPassword' = value
    /\ UNCHANGED <<appVars, search, mount, inflight, phoneInput, settings,
                   isAdminAuthenticated, adminTab, adminOrders, editingOrder, editingItems,
                   backVars, legacyVars>>
    /\ Obs("PasswordChange", NoDate, "")

MsgWrongPassword == "Senha incorreta"

\* a plausible slip: the default kept for an unset password only, ?? for ||
ExpectedPasswordNullish ==
    IF ObjHas(settings, "admin_password")
    THEN ObjGet(settings, "admin_password")
    ELSE "admin123"

\* settings.admin_password || 'admin123' (417)
ExpectedPassword ==
    IF ObjHas(settings, "admin_password") /\ ObjGet(settings, "admin_password") # ""
    THEN ObjGet(settings, "admin_password")
    ELSE "admin123"

\* a request of the admin panel as it leaves: kind, argument, and the answer
\* the store has not given yet
AdminCall(kind, arg) == [kind |-> kind, arg |-> arg, status |-> "sent", data |-> <<>>]

\* fetchAdminOrders up to its await (143-145)
fetchAdminOrders == Append(adminCalls, AdminCall("orders", NoOrder))

\* onClick of the login button (415-423)
LoginClick ==
    /\ page = "admin"
    /\ ~isAdminAuthenticated
    /\ IF adminPassword = ExpectedPassword
       THEN /\ isAdminAuthenticated' = TRUE
            /\ adminCalls' = fetchAdminOrders
            /\ Obs("LoginClick", NoDate, "")
       ELSE /\ UNCHANGED <<isAdminAuthenticated, adminCalls>>
            /\ Obs("LoginClick", NoDate, MsgWrongPassword)
    /\ UNCHANGED <<appVars, search, mount, inflight, phoneInput, settings, adminPassword,
                   adminTab, adminOrders, editingOrder, editingItems, settingsFetch,
                   orderStore, legacyVars>>

\* handleLogout (153-157), the logout button (453-458)
handleLogout ==
    /\ page = "admin"
    /\ isAdminAuthenticated
    /\ isAdminAuthenticated' = FALSE
    /\ adminPassword' = ""
    /\ page' = "schedule"
    /\ UNCHANGED <<selectedDate, availability, fetchingAvailability, loading, phoneError,
                   products, orderData, search, mount, inflight, phoneInput, settings,
                   adminTab, adminOrders, editingOrder, editingItems, backVars, legacyVars>>
    /\ Obs("handleLogout", NoDate, "")

\* The tab buttons (434-451)
AdminTabClick(tab) ==
    /\ page = "admin"
    /\ isAdminAuthenticated
    /\ adminTab' = tab
    /\ UNCHANGED <<appVars, search, mount, inflight, phoneInput, settings,
                   isAdminAuthenticated, adminPassword, adminOrders, editingOrder,
                   editingItems, backVars, legacyVars>>
    /\ Obs("AdminTabClick", NoDate, "")

\* the orders tab is on show (398, 461)
OrdersTabShown == page = "admin" /\ isAdminAuthenticated /\ adminTab = "orders"

\* the edit panel is on show (463)
EditPanelShown == OrdersTabShown /\ editingOrder # NoOrder

\* The i-th request is answered and it is the list of orders: setAdminOrders(data) (146-147)
FetchAdminOrdersDone(i) ==
    /\ i \in DOMAIN adminCalls
    /\ adminCalls[i].kind = "orders"
    /\ adminCalls[i].status = "answered"
    /\ adminOrders' = adminCalls[i].data
    /\ adminCalls' = Without(adminCalls, i)
    /\ UNCHANGED <<appVars, search, mount, inflight, phoneInput, settings,
                   isAdminAuthenticated, adminPassword, adminTab, editingOrder, editingItems,
                   settingsFetch, orderStore, legacyVars>>
    /\ Obs("fetchAdminOrders", NoDate, "")

\* The fetch of the i-th request throws: fetchAdminOrders logs it (148-150),
\* the save and delete handlers stop at their await (557, 599)
AdminCallThrows(i) ==
    /\ i \in DOMAIN adminCalls
    /\ adminCalls[i].status = "sent"
    /\ adminCalls' = Without(adminCalls, i)
    /\ UNCHANGED <<appVars, search, mount, inflight, phoneInput, adminVars, settingsFetch,
                   orderStore, legacyVars>>
    /\ Obs("AdminCallThrows", NoDate, "")

\* ---- editing an order (65-104, 462-606)

\* \s of the pattern and the characters trim() removes, among those in use
IsSpace(c) == c \in {" ", "\t", "\n"}

\* text.split(/, |\n/), cur the piece begun so far: cut at each ', ' and at
\* each line break
RECURSIVE SplitFrom(_, _)
SplitFrom(text, cur) ==
    IF text = <<>> THEN <<cur>>
    ELSE IF Len(text) >= 2 /\ text[1] = "," /\ text[2] = " "
    THEN <<cur>> \o SplitFrom(SubSeq(text, 3, Len(text)), <<>>)
    ELSE IF text[1] = "\n"
    THEN <<cur>> \o SplitFrom(Tail(text), <<>>)
    ELSE SplitFrom(Tail(text), Append(cur, text[1]))

\* order.items.split(/, |\n/).filter(Boolean) (69)
SplitItems(text) ==
    LET NotEmpty(piece) == piece # <<>> IN SelectSeq(SplitFrom(text, <<>>), NotEmpty)

\* the number of digits s starts with: the greedy \d+
DigitRun(s) ==
    CHOOSE n \in 0..Len(s) :
        /\ \A i \in 1..n : IsDigit(s[i])
        /\ n = Len(s) \/ ~IsDigit(s[n + 1])

\* the number of blanks s starts with: the greedy \s+
SpaceRun(s) ==
    CHOOSE n \in 0..Len(s) :
        /\ \A i \in 1..n : IsSpace(s[i])
        /\ n = Len(s) \/ ~IsSpace(s[n + 1])

\* no match
NoMatch == [qty |-> <<>>, name |-> <<>>]

\* p.match(/^(\d+)x\s+(.+)$/): the two groups, or no match; p holds no line
\* break, \s+ gives back its last character when nothing else is left for .+ (71)
MatchItemLine(p) ==
    LET digits == DigitRun(p)
        rest == SubSeq(p, digits + 2, Len(p))
        spaces == Min(SpaceRun(rest), Len(rest) - 1)
    IN IF /\ digits >= 1
          /\ Len(p) > digits
          /\ p[digits + 1] = "x"
          /\ spaces >= 1
       THEN [qty |-> SubSeq(p, 1, digits), name |-> SubSeq(rest, spaces + 1, Len(rest))]
       ELSE NoMatch

\* parseInt(match[1]) of a text of digits (73)
RECURSIVE parseInt(_)
parseInt(ds) ==
    IF ds = <<>> THEN 0 ELSE 10 * parseInt(SubSeq(ds, 1, Len(ds) - 1)) + DigitVal(ds[Len(ds)])

\* match[2].trim() (74)
RECURSIVE TrimEnd(_)
TrimEnd(s) == IF s # <<>> /\ IsSpace(s[Len(s)]) THEN TrimEnd(SubSeq(s, 1, Len(s) - 1)) ELSE s
Trim(s) == TrimEnd(SubSeq(s, SpaceRun(s) + 1, Len(s)))

\* products.find(prod => prod.name === productName): its place, 0 if none (75)
FindByName(ps, name) ==
    IF \E i \in DOMAIN ps : ps[i].name = name
    THEN CHOOSE i \in DOMAIN ps : ps[i].name = name /\ \A j \in 1..(i - 1) : ps[j].name # name
    ELSE 0

\* parts.forEach(...) over itemsMap (70-80)
RECURSIVE ParsedItems(_, _, _)
ParsedItems(parts, ps, itemsMap) ==
    IF parts = <<>> THEN itemsMap
    ELSE LET match == MatchItemLine(parts[1])
             found == IF match = NoMatch THEN 0 ELSE FindByName(ps, Trim(match.name))
         IN ParsedItems(Tail(parts), ps,
                        IF found = 0 THEN itemsMap
                        ELSE ObjSet(itemsMap, String(ps[found].id), parseInt(match.qty)))

\* startEditingOrder(order): the value editingItems has afterwards (65-82)
startEditingOrder(order) == ParsedItems(SplitItems(order.items), products, EmptyObj)

\* startEditingOrder called with an order; no handler of the page calls it
StartEditingOrderCall(order) ==
    /\ editingOrder' = order
    /\ editingItems' = startEditingOrder(order)
    /\ UNCHANGED <<appVars, search, mount, inflight, phoneInput, settings,
                   isAdminAuthenticated, adminPassword, adminTab, adminOrders, backVars,
                   legacyVars>>
    /\ Obs("startEditingOrder", NoDate, "")

\* The edit button of the n-th row of the orders table (592)
EditOrderClick(n) ==
    /\ OrdersTabShown
    /\ n \in DOMAIN adminOrders
    /\ editingOrder' = adminOrders[n]
    /\ UNCHANGED <<appVars, search, mount, inflight, phoneInput, settings,
                   isAdminAuthenticated, adminPassword, adminTab, adminOrders, editingItems,
                   backVars, legacyVars>>
    /\ Obs("EditOrderClick", NoDate, "")

\* The X button of the edit panel (467)
CloseEditClick ==
    /\ EditPanelShown
    /\ editingOrder' = NoOrder
    /\ UNCHANGED <<appVars, search, mount, inflight, phoneInput, settings,
                   isAdminAuthenticated, adminPassword, adminTab, adminOrders, editingItems,
                   backVars, legacyVars>>
    /\ Obs("CloseEditClick", NoDate, "")

\* the inputs of the edit panel that hold text (470-492, 545-552)
EditFields ==
    {"customer_name", "customer_phone", "order_date", "order_time", "payment_method"}

\* onChange of one of them: setEditingOrder({...editingOrder, [field]: value})
EditFieldChange(field, value) ==
    /\ EditPanelShown
    /\ field \in EditFields
    /\ editingOrder' = [editingOrder EXCEPT ![field] = value]
    /\ UNCHANGED <<appVars, search, mount, inflight, phoneInput, settings,
                   isAdminAuthenticated, adminPassword, adminTab, adminOrders, editingItems,
                   backVars, legacyVars>>
    /\ Obs("EditFieldChange", NoDate, "")

\* onChange of the total input: parseFloat(e.target.value) || 0, value the
\* number the text stands for (536-541)
EditTotalChange(value) ==
    /\ EditPanelShown
    /\ editingOrder' = [editingOrder EXCEPT !.total = value]
    /\ UNCHANGED <<appVars, search, mount, inflight, phoneInput, settings,
                   isAdminAuthenticated, adminPassword, adminTab, adminOrders, editingItems,
                   backVars, legacyVars>>
    /\ Obs("EditTotalChange", NoDate, "")

\* a plausible slip: the total of the order left as it was
updateEditingOrderItemsKeepsTotal(newItems) ==
    LET Positive(e) == e.v > 0
    IN [editingOrder EXCEPT
           !.items = Join(ItemLines(SelectSeq(newItems, Positive), products), LineBreak)]

\* updateEditingOrderItems(newItems): the value editingOrder has afterwards (84-104)
updateEditingOrderItems(newItems) ==
    IF editingOrder = NoOrder THEN editingOrder
    ELSE LET Positive(e) == e.v > 0
         IN [editingOrder EXCEPT
                !.items = Join(ItemLines(SelectSeq(newItems, Positive), products), LineBreak),
                !.total = Total(newItems, products)]

\* newItems of the - and + buttons of the i-th product of the edit panel (505-525)
EditedItems(i, delta) ==
    LET key == String(products[i].id)
        qty == QtyOf(editingItems, products[i].id)
    IN IF delta = 1 THEN ObjSet(editingItems, key, qty + 1)
       ELSE LET newQty == IF qty - 1 > 0 THEN qty - 1 ELSE 0
            IN IF newQty = 0 THEN ObjDelete(ObjSet(editingItems, key, newQty), key)
               ELSE ObjSet(editingItems, key, newQty)

\* onClick of those buttons: setEditingItems(newItems); updateEditingOrderItems(newItems)
EditQtyClick(i, delta) ==
    /\ EditPanelShown
    /\ i \in DOMAIN products
    /\ editingItems' = EditedItems(i, delta)
    /\ editingOrder' = updateEditingOrderItems(EditedItems(i, delta))
    /\ UNCHANGED <<appVars, search, mount, inflight, phoneInput, settings,
                   isAdminAuthenticated, adminPassword, adminTab, adminOrders, backVars,
                   legacyVars>>
    /\ Obs(IF delta = 1 THEN "EditQtyClick(+1)" ELSE "EditQtyClick(-1)", NoDate, "")

\* onClick of the save button of the edit panel up to its await (556-561)
SaveOrderClick ==
    /\ EditPanelShown
    /\ adminCalls' = Append(adminCalls, AdminCall("update", editingOrder))
    /\ UNCHANGED <<appVars, search, mount, inflight, phoneInput, adminVars, settingsFetch,
                   orderStore, legacyVars>>
    /\ Obs("SaveOrderClick", NoDate, "")

\* ... and after it, whatever the status of the answer:
\* setEditingOrder(null); fetchAdminOrders() (563-564)
SaveOrderDone(i) ==
    /\ i \in DOMAIN adminCalls
    /\ adminCalls[i].kind = "update"
    /\ adminCalls[i].status = "answered"
    /\ editingOrder' = NoOrder
    /\ adminCalls' = Append(Without(adminCalls, i), AdminCall("orders", NoOrder))
    /\ UNCHANGED <<appVars, search, mount, inflight, phoneInput, settings,
                   isAdminAuthenticated, adminPassword, adminTab, adminOrders, editingItems,
                   settingsFetch, orderStore, legacyVars>>
    /\ Obs("SaveOrderDone", NoDate, "")

\* onClick of the delete button of the n-th row up to its await; confirmed
\* is the answer to confirm() (596-599)
DeleteOrderClick(n, confirmed) ==
    /\ OrdersTabShown
    /\ n \in DOMAIN adminOrders
    /\ adminCalls' = IF confirmed
                     THEN Append(adminCalls, AdminCall("delete", [id |-> adminOrders[n].id]))
                     ELSE adminCalls
    /\ UNCHANGED <<appVars, search, mount, inflight, phoneInput, adminVars, settingsFetch,
                   orderStore, legacyVars>>
    /\ Obs("DeleteOrderClick", NoDate, "")

\* ... and after it: fetchAdminOrders() (601)
DeleteOrderDone(i) ==
    /\ i \in DOMAIN adminCalls
    /\ adminCalls[i].kind = "delete"
    /\ adminCalls[i].status = "answered"
    /\ adminCalls' = Append(Without(adminCalls, i), AdminCall("orders", NoOrder))
    /\ UNCHANGED <<appVars, search, mount, inflight, phoneInput, adminVars, settingsFetch,
                   orderStore, legacyVars>>
    /\ Obs("DeleteOrderDone", NoDate, "")

\* ---- products tab (702-775)

MsgProductInvalid == "Por favor, preencha o nome e um preço válido."
MsgProductSaved == "Produto salvo com sucesso!"
MsgProductSaveFailed == "Erro ao salvar produto. Tente novamente."
MsgProductDeleteFailed == "Erro ao excluir produto"

\* the products tab is on show (398, 608)
ProductsTabShown == page = "admin" /\ isAdminAuthenticated /\ adminTab = "products"

\* onClick of the save button of the product form up to its await; data is
\* the product the form holds, its price already a number (702-716)
SaveProductClick(data) ==
    /\ ProductsTabShown
    /\ IF data.name = <<>> \/ data.price <= 0
       THEN /\ UNCHANGED adminCalls
            /\ Obs("SaveProductClick", NoDate, MsgProductInvalid)
       ELSE /\ adminCalls' = Append(adminCalls, AdminCall("saveProduct", data))
            /\ Obs("SaveProductClick", NoDate, "")
    /\ UNCHANGED <<appVars, search, mount, inflight, phoneInput, adminVars, settingsFetch,
                   orderStore, legacyVars>>

\* a plausible slip: the order in the edit panel priced again and saved once
\* the catalog has changed
ProductSavedRepricesOrder(i, data) ==
    /\ i \in DOMAIN adminCalls
    /\ adminCalls[i].kind = "saveProduct"
    /\ products' = data
    /\ adminCalls' =
          IF editingOrder = NoOrder THEN Without(adminCalls, i)
          ELSE Append(Without(adminCalls, i),
                      AdminCall("update",
                                [editingOrder EXCEPT !.total = Total(editingItems, data)]))
    /\ UNCHANGED <<page, selectedDate, availability, fetchingAvailability, loading,
                   phoneError, orderData, search, mount, inflight, phoneInput, adminVars,
                   settingsFetch, orderStore, legacyVars>>
    /\ Obs("ProductSaved", NoDate, MsgProductSaved)

\* The catalog store accepts the product and fetchProducts then resolves
\* with data, the store's new list (718-727)
ProductSaved(i, data) ==
    /\ i \in DOMAIN adminCalls
    /\ adminCalls[i].kind = "saveProduct"
    /\ products' = data
    /\ adminCalls' = Without(adminCalls, i)
    /\ UNCHANGED <<page, selectedDate, availability, fetchingAvailability, loading,
                   phoneError, orderData, search, mount, inflight, phoneInput, adminVars,
                   settingsFetch, orderStore, legacyVars>>
    /\ Obs("ProductSaved", NoDate, MsgProductSaved)

\* ... or refuses it, or the fetch throws (718, 728-731)
ProductSaveFailed(i) ==
    /\ i \in DOMAIN adminCalls
    /\ adminCalls[i].kind = "saveProduct"
    /\ adminCalls' = Without(adminCalls, i)
    /\ UNCHANGED <<appVars, search, mount, inflight, phoneInput, adminVars, settingsFetch,
                   orderStore, legacyVars>>
    /\ Obs("ProductSaveFailed", NoDate, MsgProductSaveFailed)

\* onClick of the delete button of the n-th product up to its await (764-767)
DeleteProductClick(n, confirmed) ==
    /\ ProductsTabShown
    /\ n \in DOMAIN products
    /\ adminCalls' = IF confirmed
                     THEN Append(adminCalls, AdminCall("deleteProduct", [id |-> products[n].id]))
                     ELSE adminCalls
    /\ UNCHANGED <<appVars, search, mount, inflight, phoneInput, adminVars, settingsFetch,
                   orderStore, legacyVars>>
    /\ Obs("DeleteProductClick", NoDate, "")

\* The catalog store deletes the product and fetchProducts then resolves
\* with data (768-770)
ProductDeleted(i, data) ==
    /\ i \in DOMAIN adminCalls
    /\ adminCalls[i].kind = "deleteProduct"
    /\ products' = data
    /\ adminCalls' = Without(adminCalls, i)
    /\ UNCHANGED <<page, selectedDate, availability, fetchingAvailability, loading,
                   phoneError, orderData, search, mount, inflight, phoneInput, adminVars,
                   settingsFetch, orderStore, legacyVars>>
    /\ Obs("ProductDeleted", NoDate, "")

\* ... or refuses to (771-775)
ProductDeleteFailed(i) ==
    /\ i \in DOMAIN adminCalls
    /\ adminCalls[i].kind = "deleteProduct"
    /\ adminCalls' = Without(adminCalls, i)
    /\ UNCHANGED <<appVars, search, mount, inflight, phoneInput, adminVars, settingsFetch,
                   orderStore, legacyVars>>
    /\ Obs("ProductDeleteFailed", NoDate, MsgProductDeleteFailed)

\* ---- the Order Store (spec.md 3 and 6; its code is not part of src/)

EmptyOrderStore == [nextId |-> 1, orders |-> <<>>]

\* an Order made of the payload of POST /orders, under the id the store gives it
StoredOrder(id, req) ==
    [id |-> id,
     customer_name |-> req.customer_name,
     customer_phone |-> req.customer_phone,
     order_date |-> req.order_date,
     order_time |-> req.order_time,
     items |-> req.items,
     total |-> req.total,
     payment_method |-> req.payment_method]

\* POST /orders of some session is served: the order is created once
OrderStoreCreate(req) ==
    /\ orderStore' = [nextId |-> orderStore.nextId + 1,
                      orders |-> Append(orderStore.orders,
                                        StoredOrder(orderStore.nextId, req))]
    /\ lastOp' = "OrderStoreCreate"
    /\ UNCHANGED <<appVars, adminVars, envVars, settingsFetch, adminCalls, legacyVars,
                   lastDay, served>>

\* POST /orders/update: the record of that id is replaced whole
OrdersUpdated(orders, order) ==
    [n \in DOMAIN orders |-> IF orders[n].id = order.id THEN order ELSE orders[n]]

\* DELETE /orders/{id}: the record of that id is removed
OrdersDeleted(orders, id) ==
    LET Keep(o) == o.id # id IN SelectSeq(orders, Keep)

\* The store serves the i-th request of the admin panel, if it is one of its own
OrderStoreServes(i) ==
    /\ i \in DOMAIN adminCalls
    /\ adminCalls[i].status = "sent"
    /\ adminCalls[i].kind \in {"orders", "update", "delete"}
    /\ LET call == adminCalls[i]
       IN /\ orderStore' =
                [orderStore EXCEPT
                    !.orders = IF call.kind = "update" THEN OrdersUpdated(@, call.arg)
                               ELSE IF call.kind = "delete" THEN OrdersDeleted(@, call.arg.id)
                               ELSE @]
          /\ adminCalls' =
                [adminCalls EXCEPT
                    ![i] = [call EXCEPT !.status = "answered",
                                        !.data = IF call.kind = "orders"
                                                 THEN orderStore.orders ELSE <<>>]]
    /\ lastOp' = "OrderStoreServes"
    /\ UNCHANGED <<appVars, adminVars, envVars, settingsFetch, legacyVars, lastDay, served>>

\* ---- the earlier App (part_000)

\* the fetch of the mount effect resolved with data (11-16)
LegacyFetchDone(data) ==
    /\ legacyLoading
    /\ legacyProducts' = data
    /\ legacyLoading' = FALSE
    /\ UNCHANGED <<cart, appVars, adminVars, backVars, search, mount, inflight, phoneInput>>
    /\ Obs("legacyFetch", NoDate, "")

\* ... or failed (17)
LegacyFetchFail ==
    /\ legacyLoading
    /\ legacyLoading' = FALSE
    /\ UNCHANGED <<cart, legacyProducts, appVars, adminVars, backVars, search, mount, inflight, phoneInput>>
    /\ Obs("legacyFetch", NoDate, "")

\* The + button of the i-th product (64), rendered once loading is over (38)
LegacyAdd(i) ==
    /\ ~legacyLoading
    /\ i \in DOMAIN legacyProducts
    /\ cart' = addToCart(cart, legacyProducts[i].id)
    /\ UNCHANGED <<legacyProducts, legacyLoading, appVars, adminVars, backVars, search, mount, inflight, phoneInput>>
    /\ Obs("addToCart", NoDate, "")

\* The - button of the i-th product (62)
LegacyRemove(i) ==
    /\ ~legacyLoading
    /\ i \in DOMAIN legacyProducts
    /\ cart' = removeFromCart(cart, legacyProducts[i].id)
    /\ UNCHANGED <<legacyProducts, legacyLoading, appVars, adminVars, backVars, search, mount, inflight, phoneInput>>
    /\ Obs("removeFromCart", NoDate, "")

\* The earlier page is loaded again.
LegacyReload ==
    /\ cart' = EmptyObj
    /\ legacyProducts' = <<>>
    /\ legacyLoading' = TRUE
    /\ UNCHANGED <<appVars, adminVars, backVars, search, mount, inflight, phoneInput>>
    /\ Obs("legacyReload", NoDate, "")

(***************************************************************************)
(* Inputs                                                                  *)
(***************************************************************************)

Monday == MkDate(2026, 3, 2, 0)
Sunday == MkDate(2026, 3, 1, 0)
Saturday == MkDate(2026, 2, 28, 0)
Yesterday == MkDate(2026, 2, 26, 0)

\* '10:00' and '08:00'
Slot10 == TIME_SLOTS[5]
Slot08 == TIME_SLOTS[1]

\* a link to the order step, as proceedToOrder writes it
DeepLink == OrderQuery(formatIso(Monday), Slot10)

CatalogAB == <<Product(Str("A"), <<"A">>, 5), Product(Str("B"), <<"B">>, 3)>>
CatalogRepriced == <<Product(Str("A"), <<"A">>, 6), Product(Str("B"), <<"B">>, 3)>>
CatalogWithoutB == <<Product(Str("A"), <<"A">>, 5)>>
\* ids as numbers, the higher id listed first
CatalogNumeric ==
    <<Product(Num(2), <<"B", "o", "l", "o">>, 5),
      Product(Num(1), <<"Q", "u", "i", "c", "h", "e">>, 3)>>

\* the settings as the store holds them before any is saved
SettingsAsSeeded == InitialSettings

\* The most of one product put in a cart.
MaxQty == 2

\* The most create-order requests followed at once.
MaxInflight == 2

\* the + button may still be pressed for the i-th product
AppCanAdd(i) ==
    i \in DOMAIN products => QtyOf(orderData.selectedItems, products[i].id) < MaxQty
LegacyCanAdd(i) ==
    i \in DOMAIN legacyProducts => QtyOf(cart, legacyProducts[i].id) < MaxQty

\* the page just loaded, whatever the Order Store holds
InitSession(searches) ==
    /\ InitApp
    /\ InitAdmin
    /\ InitLegacy
    /\ search \in searches
    /\ mount = "fetching"
    /\ settingsFetch = "pending"
    /\ inflight = <<>>
    /\ adminCalls = <<>>
    /\ alertMsg = ""
    /\ phoneInput = <<>>
    /\ lastOp = "init"
    /\ lastDay = NoDate
    /\ served = FALSE

\* ... over a store that holds no order yet
InitWith(searches) ==
    /\ InitSession(searches)
    /\ orderStore = EmptyOrderStore

(***************************************************************************)
(* SpecPhone: the phone field of the order step                            *)
(***************************************************************************)

WellFormedText == <<"(", "1", "2", "3", ")", " ", "4", "5", "6", "-", "7", "8", "9", "0">>
BareDigits == <<"1", "2", "3", "4", "5", "6", "7", "8", "9", "0">>
ElevenDigits == BareDigits \o <<"1">>
DashedDigits == <<"1", "2", "3", "-", "4", "5", "6", "-", "7", "8", "9", "0">>
PartialText == <<"(", "1", "2", "3", ")", " ", "4", "5">>
FiveDigits == <<"1", "2", "3", "4", "5">>

KeyChars == {"5", "a", "(", ")", " ", "-"}

\* every text one key press or one delete away from t
OneEditFrom(t) ==
    {SubSeq(t, 1, i) \o <<c>> \o SubSeq(t, i + 1, Len(t)) : i \in 0..Len(t), c \in KeyChars}
    \cup {SubSeq(t, 1, i - 1) \o SubSeq(t, i + 1, Len(t)) : i \in 1..Len(t)}

PastedTexts ==
    {WellFormedText, BareDigits, ElevenDigits, DashedDigits, PartialText, FiveDigits,
     <<"a", "b">>}
    \cup OneEditFrom(WellFormedText)

InitPhone == InitWith({DeepLink})

NextPhone ==
    \/ FetchProductsDone(CatalogAB)
    \/ FetchSettingsDone(SettingsAsSeeded)
    \/ UrlSync
    \/ \E c \in KeyChars : PhoneType(Len(orderData.phone), c)
    \/ PhoneDelete(Len(orderData.phone))
    \/ \E t \in PastedTexts : PhonePaste(t)

SpecPhone == InitPhone /\ [][NextPhone]_vars

\* '(' 3 digits ')' space 3 digits '-' 4 digits, and nothing else
WellFormedPhone(s) ==
    /\ Len(s) = 14
    /\ s[1] = "(" /\ s[5] = ")" /\ s[6] = " " /\ s[10] = "-"
    /\ \A i \in {2, 3, 4, 7, 8, 9, 11, 12, 13, 14} : s[i] \in {DigitStr[j] : j \in 1..10}

\* C9: validatePhone accepts a text exactly when it is '(' 3 digits ')' space
\* 3 digits '-' 4 digits with nothing before or after; this holds of every
\* text the phone field receives and of every value it then holds.
C9_ValidatePhoneExact ==
    /\ validatePhone(phoneInput) <=> WellFormedPhone(phoneInput)
    /\ validatePhone(orderData.phone) <=> WellFormedPhone(orderData.phone)

\* a well-formed phone followed by one more character was received and refused
C9_Witness ==
    /\ lastOp = "handlePhoneChange"
    /\ Len(phoneInput) = 15
    /\ WellFormedPhone(SubSeq(phoneInput, 1, 14))
    /\ ~validatePhone(phoneInput)

\* C10: formatting is idempotent, and leaves a well-formed phone as it is:
\* the value the field holds is formatPhoneNumber of the text received,
\* formatting it again changes nothing, and a well-formed text received is
\* held unchanged.
C10_FormatIdempotent ==
    lastOp = "handlePhoneChange" =>
        /\ orderData.phone = formatPhoneNumber(phoneInput)
        /\ formatPhoneNumber(formatPhoneNumber(phoneInput)) = formatPhoneNumber(phoneInput)
        /\ WellFormedPhone(phoneInput) => orderData.phone = phoneInput

\* a well-formed text was received and is held as received
C10_Witness ==
    /\ lastOp = "handlePhoneChange"
    /\ WellFormedPhone(phoneInput)
    /\ orderData.phone = phoneInput

\* the decimal digits of s, in order
DigitsOf(s) ==
    LET IsDecimal(c) == c \in {"0", "1", "2", "3", "4", "5", "6", "7", "8", "9"}
    IN SelectSeq(s, IsDecimal)

\* digits d laid out by count: bare, '(ddd) d..', '(ddd) ddd-d..' up to the tenth
Rendered(d) ==
    IF Len(d) < 4 THEN d
    ELSE IF Len(d) < 7
    THEN <<"(", d[1], d[2], d[3], ")", " ">> \o SubSeq(d, 4, Len(d))
    ELSE <<"(", d[1], d[2], d[3], ")", " ", d[4], d[5], d[6], "-">>
         \o SubSeq(d, 7, IF Len(d) < 10 THEN Len(d) ELSE 10)

\* C11: the value the phone field holds is the digits of the text received,
\* laid out by their count: fewer than 4 bare, 4 to 6 as '(ddd) ' and the rest,
\* 7 or more as '(ddd) ddd-' and digits 7 to 10 with the later ones dropped;
\* 12345 is held as '(123) 45', and a text with 10 digits or more is held as a
\* value validatePhone accepts.
C11_FormatByDigitCount ==
    lastOp = "handlePhoneChange" =>
        LET d == DigitsOf(phoneInput)
        IN /\ orderData.phone = Rendered(d)
           /\ Len(d) >= 10 => validatePhone(orderData.phone)
           /\ phoneInput = FiveDigits => orderData.phone = PartialText

\* eleven bare digits were received and the first ten are held, well formed
C11_Witness ==
    /\ lastOp = "handlePhoneChange"
    /\ phoneInput = ElevenDigits
    /\ orderData.phone = WellFormedText
    /\ validatePhone(orderData.phone)

(***************************************************************************)
(* SpecCart: the two carts and the catalog they are priced against.  The   *)
(* two Apps are separate pages; one is explored while the other rests in   *)
(* its initial state.                                                      *)
(***************************************************************************)

Catalogs == {CatalogAB, CatalogRepriced, CatalogWithoutB, CatalogNumeric}

AppIdle == InitApp /\ mount = "fetching"
LegacyIdle == InitLegacy

InitCart == InitWith({DeepLink})

NextCart ==
    \/ \E c \in {CatalogAB, CatalogNumeric} : LegacyIdle /\ FetchProductsDone(c)
    \/ LegacyIdle /\ FetchSettingsDone(SettingsAsSeeded)
    \/ LegacyIdle /\ FetchProductsFail
    \/ LegacyIdle /\ UrlSync
    \/ \E i \in 1..2 : LegacyIdle /\ AppCanAdd(i) /\ ItemClick(i, 1)
    \/ \E i \in 1..2 : LegacyIdle /\ ItemClick(i, -1)
    \/ LegacyIdle /\ AdminToggle
    \/ LegacyIdle /\ ContinueClick
    \/ \E c \in Catalogs : LegacyIdle /\ AdminProductsRefetch(c)
    \/ LegacyIdle /\ Reload
    \/ \E c \in {CatalogAB, CatalogNumeric} : AppIdle /\ LegacyFetchDone(c)
    \/ AppIdle /\ LegacyFetchFail
    \/ \E i \in 1..2 : AppIdle /\ LegacyCanAdd(i) /\ LegacyAdd(i)
    \/ \E i \in 1..2 : AppIdle /\ LegacyRemove(i)
    \/ AppIdle /\ LegacyReload

SpecCart == InitCart /\ [][NextCart]_vars

PositiveQuantities(items) ==
    /\ \A i \in DOMAIN items : items[i].v \in Nat /\ items[i].v >= 1
    /\ \A i, j \in DOMAIN items : items[i].k = items[j].k => i = j

\* C1: every step leaves both carts with quantities of 1 or more under
\* distinct keys, and a decrement never adds a key (an absent key stays
\* absent).
C1_CartQuantitiesPositive ==
    [][/\ PositiveQuantities(orderData'.selectedItems)
       /\ PositiveQuantities(cart')
       /\ lastOp' = "updateItemQuantity(-1)" =>
              ObjKeys(orderData'.selectedItems) \subseteq ObjKeys(orderData.selectedItems)
       /\ lastOp' = "removeFromCart" => ObjKeys(cart') \subseteq ObjKeys(cart)]_vars

\* a decrement has just run and left one product at quantity 1
C1_Witness ==
    /\ lastOp = "updateItemQuantity(-1)"
    /\ Len(orderData.selectedItems) = 1
    /\ orderData.selectedItems[1].v = 1

\* the price the catalog ps now holds for cart key k, 0 when it holds none
CurrentPrice(ps, k) ==
    IF \E i \in DOMAIN ps : String(ps[i].id) = k
    THEN ps[CHOOSE i \in DOMAIN ps : String(ps[i].id) = k].price
    ELSE 0

RECURSIVE SumOverKeys(_, _, _)
SumOverKeys(keys, items, ps) ==
    IF keys = {} THEN 0
    ELSE LET k == CHOOSE k \in keys : TRUE
         IN ObjGet(items, k) * CurrentPrice(ps, k) + SumOverKeys(keys \ {k}, items, ps)

\* C2: after every step each total is the sum, over the keys present in its
\* cart, of quantity times the price the catalog now holds for that key, 0
\* for a key the catalog does not hold; and a step that replaces the catalog
\* leaves the cart as it was.
C2_TotalFromCurrentCatalog ==
    [][/\ total' = SumOverKeys(ObjKeys(orderData'.selectedItems),
                               orderData'.selectedItems, products')
       /\ legacyTotal' = SumOverKeys(ObjKeys(cart'), cart', legacyProducts')
       /\ lastOp' = "fetchProducts" => orderData' = orderData]_vars

\* the catalog has just been replaced and no longer holds a product whose key
\* is in the cart, next to a key it does hold
C2_Witness ==
    /\ lastOp = "fetchProducts"
    /\ \E k \in ObjKeys(orderData.selectedItems) :
          \A i \in DOMAIN products : String(products[i].id) # k
    /\ total > 0

(***************************************************************************)
(* SpecSchedule: the scheduling step, the query string and page loads      *)
(***************************************************************************)

GarbageText == <<"a", "b", "c">>
\* '2026-02-30': a day past the end of its month
OverflowText == <<"2", "0", "2", "6", "-", "0", "2", "-", "3", "0">>
\* '25:00': not a slot
UnknownSlot == <<"2", "5", ":", "0", "0">>

ScheduleSearches ==
    {<<>>,
     DeepLink,
     OrderQuery(formatIso(Sunday), Slot10),
     OrderQuery(formatIso(Saturday), Slot10),
     OrderQuery(GarbageText, Slot10),
     OrderQuery(OverflowText, Slot10),
     OrderQuery(formatIso(Monday), UnknownSlot),
     <<"?">> \o KeyData \o <<"=">> \o formatIso(Monday),
     <<"?">> \o KeyHora \o <<"=">> \o Slot10}

\* Saturday sold out; Sunday and Monday marked available; nothing on the rest
AvailabilityA ==
    <<[k |-> formatIso(Saturday), v |-> "sold_out"],
      [k |-> formatIso(Sunday), v |-> "available"],
      [k |-> formatIso(Monday), v |-> "available"]>>

CalendarDays == {Yesterday, Today, Saturday, Sunday, Monday}

InitSchedule == InitWith(ScheduleSearches)

NextSchedule ==
    \/ FetchProductsDone(CatalogAB)
    \/ FetchSettingsDone(SettingsAsSeeded)
    \/ UrlSync
    \/ \E a \in {EmptyObj, AvailabilityA} : FetchAvailabilityDone(a)
    \/ FetchAvailabilityFail
    \/ \E d \in CalendarDays : DayClick(d)
    \/ \E t \in {Slot08, Slot10} : SlotClick(t)
    \/ ContinueClick
    \/ BackClick
    \/ AdminToggle
    \/ AppCanAdd(1) /\ ItemClick(1, 1)
    \/ ItemClick(1, -1)
    \/ Reload

SpecSchedule == InitSchedule /\ [][NextSchedule]_vars

SameDay(a, b) == a.y = b.y /\ a.m = b.m /\ a.d = b.d

MarkedSoldOut(d) ==
    \E i \in DOMAIN availability :
        availability[i].k = formatIso(d) /\ availability[i].v = "sold_out"

\* C5: a click on a Sunday leaves selectedDate as it was whatever the map
\* holds; so does a click on a day the map marks sold_out; a click on any
\* other day from today on, with or without a map entry, makes that day the
\* selected date; and no selected date is ever a Sunday.
C5_DateSelection ==
    [][/\ lastOp' = "DayClick" =>
              IF GetDay(lastDay') = 0 \/ MarkedSoldOut(lastDay')
              THEN selectedDate' = selectedDate
              ELSE DayNumber(lastDay') >= DayNumber(Today) =>
                       SameDay(selectedDate', lastDay')
       /\ selectedDate' # NoDate => GetDay(selectedDate') # 0]_vars

\* a Sunday the map marks available has just been clicked, with another day
\* selected before and after
C5_Witness ==
    /\ lastOp = "DayClick"
    /\ GetDay(lastDay) = 0
    /\ \E i \in DOMAIN availability :
          availability[i].k = formatIso(lastDay) /\ availability[i].v = "available"
    /\ selectedDate # NoDate

\* C7: the URL sync of a load sets date, slot and page 'order' exactly when
\* the date parameter parses to a day that is not a Sunday and the slot
\* parameter is one of TIME_SLOTS; with such a date and any other slot
\* parameter it sets the date alone; otherwise it changes nothing.
C7_DeepLink ==
    [][lastOp' = "urlSync" =>
          LET params == URLSearchParams(search)
              dateParam == ParamsGet(params, KeyData)
              timeParam == ParamsGet(params, KeyHora)
              parsed == IF dateParam = <<>> THEN {InvalidDate}
                        ELSE ParseDateParam(dateParam)
          IN \E date \in parsed :
                IF date # InvalidDate /\ GetDay(date) # 0
                THEN IF \E i \in 1..21 : TIME_SLOTS[i] = timeParam
                     THEN /\ selectedDate' = date
                          /\ orderData' = [orderData EXCEPT !.time = timeParam]
                          /\ page' = "order"
                     ELSE /\ selectedDate' = date
                          /\ orderData' = orderData
                          /\ page' = page
                ELSE /\ selectedDate' = selectedDate
                     /\ orderData' = orderData
                     /\ page' = page]_vars

\* a load from a link to Monday at 10:00 has reached the order step
C7_Witness ==
    /\ lastOp = "urlSync"
    /\ page = "order"
    /\ selectedDate = MkDate(2026, 3, 2, 12)
    /\ orderData.time = Slot10
    /\ search = DeepLink

\* 'DDDD-DD-DD'
IsoShaped(s) ==
    /\ Len(s) = 10
    /\ s[5] = "-" /\ s[8] = "-"
    /\ \A i \in {1, 2, 3, 4, 6, 7, 9, 10} : s[i] \in {DigitStr[j] : j \in 1..10}

\* C8: an advance to the order step leaves a query string whose date
\* parameter is the selected day as yyyy-MM-dd and whose slot parameter is the
\* selected slot, and the URL sync of a load, given that query string, selects
\* the same day and the same slot and goes to the order step.
C8_QueryRoundTrip ==
    [][lastOp' = "proceedToOrder" /\ page' = "order" =>
          LET params == URLSearchParams(search')
              dateParam == ParamsGet(params, KeyData)
          IN /\ IsoShaped(dateParam)
             /\ 100 * Num2(dateParam, 1) + Num2(dateParam, 3) = selectedDate.y
             /\ Num2(dateParam, 6) = selectedDate.m
             /\ Num2(dateParam, 9) = selectedDate.d
             /\ ParamsGet(params, KeyHora) = orderData.time
             /\ \A r \in urlSync(search') :
                   /\ SameDay(r.selectedDate, selectedDate)
                   /\ r.orderData.time = orderData.time
                   /\ r.page = "order"]_vars

\* a day and a slot no offered link carries were chosen, written by an
\* advance, and read back by the URL sync of a later load
C8_Witness ==
    /\ lastOp = "urlSync"
    /\ page = "order"
    /\ SameDay(selectedDate, Today)
    /\ orderData.time = Slot08
    /\ search = OrderQuery(formatIso(Today), Slot08)

(***************************************************************************)
(* Spec: the order step as the page offers it                              *)
(***************************************************************************)

ErrorBodies ==
    {[json |-> TRUE, error |-> "Horario indisponivel"],
     [json |-> TRUE, error |-> "Dia esgotado"],
     [json |-> TRUE, error |-> ""],
     [json |-> FALSE, error |-> ""]}

Init == InitWith({<<>>, DeepLink})

Next ==
    \/ FetchProductsDone(CatalogAB)
    \/ FetchSettingsDone(SettingsAsSeeded)
    \/ UrlSync
    \/ DayClick(Monday)
    \/ SlotClick(Slot10)
    \/ ContinueClick
    \/ BackClick
    \/ AdminToggle
    \/ NameChange("Ana")
    \/ \E text \in {PartialText, WellFormedText} : PhonePaste(text)
    \/ PaymentClick("cash")
    \/ \E i \in 1..2 : AppCanAdd(i) /\ ItemClick(i, 1)
    \/ \E i \in 1..2 : ItemClick(i, -1)
    \/ Len(inflight) < MaxInflight /\ SubmitClick
    \/ SubmitBlocked
    \/ \E i \in 1..MaxInflight : OrderAccepted(i)
    \/ \E i \in 1..MaxInflight : \E body \in ErrorBodies : OrderRejected(i, body)
    \/ \E i \in 1..MaxInflight : OrderTransportFailure(i)
    \/ Reload
    \/ NewBookingClick

Spec == Init /\ [][Next]_vars

\* C4: never more than one create-order request is outstanding, loading is
\* set exactly while one is, and no step taken while loading is set adds a
\* request.
C4_OneSubmissionInFlight ==
    /\ [](Len(inflight) <= 1 /\ (loading <=> inflight # <<>>))
    /\ [][loading => Len(inflight') <= Len(inflight)]_vars

\* a request is outstanding and the customer has gone on to change the cart
\* on the order step
C4_Witness ==
    /\ loading
    /\ Len(inflight) = 1
    /\ page = "order"
    /\ lastOp = "updateItemQuantity(+1)"
    /\ total > 0

(***************************************************************************)
(* SpecDirect: proceedToOrder and submitOrder called in any state          *)
(***************************************************************************)

InitDirect == InitWith({<<>>, DeepLink})

NextDirect ==
    \/ FetchProductsDone(CatalogAB)
    \/ FetchSettingsDone(SettingsAsSeeded)
    \/ FetchProductsFail
    \/ UrlSync
    \/ DayClick(Monday)
    \/ SlotClick(Slot10)
    \/ ProceedToOrderCall
    \/ BackClick
    \/ \E text \in {PartialText, WellFormedText} : PhonePaste(text)
    \/ AppCanAdd(1) /\ ItemClick(1, 1)
    \/ ItemClick(1, -1)
    \/ Len(inflight) < MaxInflight /\ SubmitOrderCall
    \/ \E i \in 1..MaxInflight : OrderAccepted(i)
    \/ \E i \in 1..MaxInflight : \E body \in ErrorBodies : OrderRejected(i, body)
    \/ \E i \in 1..MaxInflight : OrderTransportFailure(i)
    \/ Reload

SpecDirect == InitDirect /\ [][NextDirect]_vars

\* C3: a create-order request is added only by submitOrder, and only when a
\* date is selected, the total is above 0 and the phone is fully formed; when
\* one of the three fails submitOrder adds no request and leaves page, loading
\* flag, selected date and draft as they were, and with a date and a total but
\* a malformed phone it sets the phone error.
C3_SubmitPreconditions ==
    [][LET ready == /\ selectedDate # NoDate
                    /\ total > 0
                    /\ WellFormedPhone(orderData.phone)
       IN /\ Len(inflight') > Len(inflight) => lastOp' = "submitOrder" /\ ready
          /\ lastOp' = "submitOrder" /\ ~ready =>
                /\ inflight' = inflight
                /\ page' = page
                /\ loading' = loading
                /\ orderData' = orderData
                /\ selectedDate' = selectedDate
                /\ (selectedDate # NoDate /\ total > 0 => phoneError' = MsgPhoneError)]_vars

\* submitOrder has just run with a date and a fully formed phone on an empty
\* cart, and nothing was sent
C3_Witness ==
    /\ lastOp = "submitOrder"
    /\ selectedDate # NoDate
    /\ WellFormedPhone(orderData.phone)
    /\ total = 0
    /\ inflight = <<>>
    /\ ~loading
    /\ page = "order"

\* C6: proceedToOrder called on the scheduling step goes to the order step
\* exactly when a date and a slot are both selected; with a date and no slot
\* it shows the message asking for a slot and keeps page and query string;
\* with no date it shows nothing and keeps both.
C6_ProceedNeedsDateAndSlot ==
    [][lastOp' = "proceedToOrder" =>
          IF selectedDate # NoDate /\ orderData.time # <<>>
          THEN page' = "order"
          ELSE /\ page' = page
               /\ search' = search
               /\ alertMsg' = (IF selectedDate # NoDate THEN MsgSelectTime ELSE "")]_vars

\* proceedToOrder has just run with a date and no slot
C6_Witness ==
    /\ lastOp = "proceedToOrder"
    /\ alertMsg = MsgSelectTime
    /\ page = "schedule"
    /\ selectedDate # NoDate
    /\ orderData.time = <<>>

(***************************************************************************)
(* SpecPayload: what a submission sends, over catalogs with text ids and   *)
(* with number ids                                                         *)
(***************************************************************************)

InitPayload == InitWith({DeepLink})

NextPayload ==
    \/ \E c \in {CatalogAB, CatalogNumeric} : FetchProductsDone(c)
    \/ FetchSettingsDone(SettingsAsSeeded)
    \/ UrlSync
    \/ AdminToggle
    \/ AdminProductsRefetch(CatalogWithoutB)
    \/ ContinueClick
    \/ NameChange("Ana")
    \/ PhonePaste(WellFormedText)
    \/ \E i \in 1..2 : AppCanAdd(i) /\ ItemClick(i, 1)
    \/ \E i \in 1..2 : ItemClick(i, -1)
    \/ Len(inflight) < MaxInflight /\ SubmitClick
    \/ \E i \in 1..MaxInflight : OrderAccepted(i)
    \/ \E i \in 1..MaxInflight : OrderRejected(i, [json |-> TRUE, error |-> ""])
    \/ Reload

SpecPayload == InitPayload /\ [][NextPayload]_vars

KeysSeq(o) == [i \in DOMAIN o |-> o[i].k]

\* the entries of old and new that both hold come in the same order, and an
\* entry only new holds comes last
InsertionOrderKept(old, new) ==
    LET InOld(k) == k \in ObjKeys(old)
        InNew(k) == k \in ObjKeys(new)
    IN /\ SelectSeq(KeysSeq(new), InOld) = SelectSeq(KeysSeq(old), InNew)
       /\ \A k \in ObjKeys(new) \ ObjKeys(old) : new[Len(new)].k = k

\* the entries whose key is a whole number come first, by ascending number
IndexKeysFirst(o) ==
    \A i, j \in DOMAIN o :
        i < j /\ IsIndexKey(o[j].k) =>
            IsIndexKey(o[i].k) /\ KeyIndex(o[i].k) < KeyIndex(o[j].k)

NamedEntries(o) == LET Named(e) == ~IsIndexKey(e.k) IN SelectSeq(o, Named)

\* the name the catalog holds for key k, 'undefined' when it holds none
NameOf(ps, k) ==
    IF \E i \in DOMAIN ps : String(ps[i].id) = k
    THEN ps[CHOOSE i \in DOMAIN ps : String(ps[i].id) = k].name
    ELSE Undefined

\* the request a step has just added, if it added one
Sent == inflight'[Len(inflight')]

\* C12 as stated: the request a submission adds carries the sum of quantity
\* times catalog price as its total and one line QTY 'x' NAME per cart entry,
\* in cart order, and the cart keeps its entries in the order they were added.
C12_PayloadAsStated ==
    [][/\ Len(inflight') > Len(inflight) =>
             LET items == orderData.selectedItems
             IN /\ Sent.total = SumOverKeys(ObjKeys(items), items, products)
                /\ Sent.items =
                      Join([i \in DOMAIN items |->
                               Decimal(items[i].v) \o <<"x">> \o NameOf(products, items[i].k)],
                           LineBreak)
       /\ InsertionOrderKept(orderData.selectedItems, orderData'.selectedItems)]_vars

\* C12, amended: the request a submission adds carries the sum of quantity
\* times catalog price as its total and one line QTY 'x' space NAME per cart
\* entry, in cart order; the cart keeps the entries whose id is a whole number
\* first, by ascending id, and the others after them in the order they were
\* added; cart A:2, B:1 at prices 5 and 3 gives total 13 and '2x A', '1x B'.
C12_PayloadIterationOrder ==
    [][/\ Len(inflight') > Len(inflight) =>
             LET items == orderData.selectedItems
             IN /\ Sent.total = SumOverKeys(ObjKeys(items), items, products)
                /\ Sent.items =
                      Join([i \in DOMAIN items |->
                               Decimal(items[i].v) \o <<"x", " ">>
                                   \o NameOf(products, items[i].k)],
                           LineBreak)
                /\ (products = CatalogAB
                    /\ items = <<[k |-> "A", v |-> 2], [k |-> "B", v |-> 1]>>) =>
                      /\ Sent.total = 13
                      /\ Sent.items = <<"2", "x", " ", "A", "\n", "1", "x", " ", "B">>
       /\ IndexKeysFirst(orderData'.selectedItems)
       /\ InsertionOrderKept(NamedEntries(orderData.selectedItems),
                             NamedEntries(orderData'.selectedItems))]_vars

\* a request is out whose lines follow the ids 1 and 2, the product listed
\* second in the catalog first
C12_Witness ==
    /\ lastOp = "submitOrder"
    /\ products = CatalogNumeric
    /\ Len(inflight) = 1
    /\ inflight[1].items = <<"1", "x", " ", "Q", "u", "i", "c", "h", "e", "\n",
                              "2", "x", " ", "B", "o", "l", "o">>
    /\ inflight[1].total = 13

(***************************************************************************)
(* The answers to a submission, navigation and refusals (Spec, SpecDirect, *)
(* SpecSchedule)                                                           *)
(***************************************************************************)

\* name, phone, cart, payment method and slot, and the selected date
DraftKept == orderData' = orderData /\ selectedDate' = selectedDate

FilledDraft ==
    /\ orderData.name = "Ana"
    /\ orderData.phone = WellFormedText
    /\ orderData.selectedItems # EmptyObj
    /\ orderData.time = Slot10
    /\ selectedDate # NoDate

\* C13: a step that answers a request with a failure status and a JSON body
\* carrying an error string shows exactly that string, leaves the page where
\* it is, the order step included, and keeps the draft and the date.
C13_ServerMessageVerbatim ==
    [][\A i \in 1..MaxInflight : \A body \in ErrorBodies :
          body.json /\ body.error # "" /\ OrderRejected(i, body) =>
              /\ alertMsg' = body.error
              /\ page' = page
              /\ DraftKept]_vars

\* the server's 'Dia esgotado' is on show on the order step, nothing is
\* outstanding and the draft is still filled in
C13_Witness ==
    /\ lastOp = "OrderRejected"
    /\ alertMsg = "Dia esgotado"
    /\ page = "order"
    /\ ~loading
    /\ FilledDraft

\* C14 as stated: a step that answers a request with a failure status and a
\* body that is not JSON shows the fallback for a failed order, the one shown
\* for a body without an error string, leaves the page where it is and clears
\* loading.
C14_UnparsableBodyFallback ==
    [][\A i \in 1..MaxInflight : \A body \in ErrorBodies :
          ~body.json /\ OrderRejected(i, body) =>
              /\ alertMsg' = MsgOrderFailed
              /\ page' = page
              /\ ~loading']_vars

\* C15: a step in which the request fails without a response shows the
\* connectivity message, leaves the page where it is, the order step
\* included, and keeps every field of the draft and the selected date.
C15_TransportFailureKeepsDraft ==
    [][lastOp' = "OrderTransportFailure" =>
          /\ alertMsg' = MsgConnection
          /\ page' = page
          /\ DraftKept]_vars

\* the connectivity message is on show on the order step with the draft
\* still filled in
C15_Witness ==
    /\ lastOp = "OrderTransportFailure"
    /\ alertMsg = MsgConnection
    /\ page = "order"
    /\ ~loading
    /\ FilledDraft

\* C16: a step that answers a request with a success status goes to the
\* confirmation step and keeps name, phone, cart, payment method, slot and
\* selected date as they were.
C16_SuccessKeepsDraft ==
    [][lastOp' = "OrderAccepted" => page' = "success" /\ DraftKept]_vars

\* the confirmation step is on show with the draft still filled in
C16_Witness ==
    /\ lastOp = "OrderAccepted"
    /\ page = "success"
    /\ inflight = <<>>
    /\ FilledDraft

\* C17: going back to the scheduling step, forward to the order step, or to
\* and from the admin panel keeps the whole draft; the cart changes only by
\* its own + and - buttons and is otherwise lost only to a reload or a new
\* booking.
C17_NavigationKeepsCart ==
    [][/\ lastOp' \in {"BackClick", "proceedToOrder", "AdminToggle"} => orderData' = orderData
       /\ orderData'.selectedItems # orderData.selectedItems =>
             lastOp' \in {"updateItemQuantity(+1)", "updateItemQuantity(-1)",
                          "reload", "NewBookingClick"}]_vars

\* back on the order step through the continue button, after the link, with
\* the cart, name and phone entered on the earlier visit
C17_Witness ==
    /\ lastOp = "proceedToOrder"
    /\ page = "order"
    /\ orderData.selectedItems = <<[k |-> "A", v |-> 1], [k |-> "B", v |-> 2]>>
    /\ orderData.name = "Ana"
    /\ orderData.phone = WellFormedText
    /\ orderData.paymentMethod = "cash"

\* C18: a click on a day, taken or refused, keeps the slot, the cart and
\* every other field of the draft, the page and the query string.
C18_DateSelectKeepsDraft ==
    [][lastOp' = "DayClick" =>
          /\ orderData' = orderData
          /\ page' = page
          /\ search' = search]_vars

\* a sold-out day has just been clicked and refused with a slot chosen and a
\* product in the cart
C18_Witness ==
    /\ lastOp = "DayClick"
    /\ MarkedSoldOut(lastDay)
    /\ ~SameDay(selectedDate, lastDay)
    /\ selectedDate # NoDate
    /\ orderData.time = Slot08
    /\ orderData.selectedItems # EmptyObj

\* C19 as stated: when submitOrder stops because no date is selected or the
\* total is 0, a message or a field error is on show afterwards.
C19_RefusalGivesReason ==
    [][lastOp' = "submitOrder" /\ (selectedDate = NoDate \/ total = 0) =>
          alertMsg' # "" \/ phoneError' # ""]_vars

\* C20: a request is added only while the name field is filled in, and no
\* request outstanding carries an empty name.
C20_NameRequired ==
    /\ [](\A i \in DOMAIN inflight : inflight[i].customer_name # "")
    /\ [][Len(inflight') > Len(inflight) => orderData.name # ""]_vars

\* the button was pressed with everything but the name filled in, and
\* nothing was sent
C20_Witness ==
    /\ lastOp = "SubmitBlocked"
    /\ orderData.name = ""
    /\ validatePhone(orderData.phone)
    /\ total > 0
    /\ selectedDate # NoDate
    /\ inflight = <<>>
    /\ ~loading

(***************************************************************************)
(* The confirmation step and what reaches it (Spec, SpecSoldOut, SpecLive) *)
(***************************************************************************)

\* C30 as stated: a step that brings the confirmation step on show starts on
\* the order step.
C30_SuccessOnlyFromOrder ==
    [][page' = "success" /\ page # "success" => page = "order"]_vars

\* C29 as stated: once a request carrying the draft in hand has succeeded
\* and the draft has not been edited since, no step before the next load of
\* the page adds a create-order request.
C29_NoSecondRequest ==
    [][Len(inflight') > Len(inflight) => ~served]_vars

\* C27 as stated: the draft on show when the confirmation step comes up
\* would make the very request that succeeded (name, phone, date, slot, item
\* lines, total and payment method), and nothing changes it while the
\* confirmation step stays on show.
C27_ConfirmationMatchesPayload ==
    /\ [][\A i \in 1..MaxInflight : OrderAccepted(i) => OrderRequest' = inflight[i]]_vars
    /\ [][page = "success" /\ page' = "success" =>
             /\ orderData' = orderData
             /\ selectedDate' = selectedDate
             /\ products' = products]_vars

\* ---- SpecSoldOut: the order step reached over a day that is sold out

SoldOutSearches ==
    {<<>>, OrderQuery(formatIso(Saturday), Slot10), OrderQuery(formatIso(Sunday), Slot10)}

InitSoldOut == InitWith(SoldOutSearches)

NextSoldOut ==
    \/ FetchProductsDone(CatalogAB)
    \/ FetchSettingsDone(SettingsAsSeeded)
    \/ UrlSync
    \/ FetchAvailabilityDone(AvailabilityA)
    \/ \E d \in {Saturday, Sunday, Monday} : DayClick(d)
    \/ SlotClick(Slot10)
    \/ ContinueClick
    \/ BackClick
    \/ NameChange("Ana")
    \/ PhonePaste(WellFormedText)
    \/ AppCanAdd(1) /\ ItemClick(1, 1)
    \/ Len(inflight) < MaxInflight /\ SubmitClick
    \/ \E i \in 1..MaxInflight : OrderRejected(i, [json |-> TRUE, error |-> "Dia esgotado"])
    \/ Reload

SpecSoldOut == InitSoldOut /\ [][NextSoldOut]_vars

\* C28 as stated: the date a new create-order request carries is no Sunday
\* and is not marked sold_out in the availability map held when it is sent.
C28_RequestDateOpen ==
    [][Len(inflight') > Len(inflight) =>
          /\ \A day \in CalendarDays : isSunday(day) => Sent.order_date # formatIso(day)
          /\ ~(/\ ObjHas(availability, Sent.order_date)
               /\ ObjGet(availability, Sent.order_date) = "sold_out")]_vars

\* ---- SpecLive: every request is answered in the end

InitLive == InitWith({DeepLink})

NextLive ==
    \/ FetchProductsDone(CatalogAB)
    \/ FetchSettingsDone(SettingsAsSeeded)
    \/ UrlSync
    \/ BackClick
    \/ ContinueClick
    \/ NameChange("Ana")
    \/ PhonePaste(WellFormedText)
    \/ AppCanAdd(1) /\ ItemClick(1, 1)
    \/ ItemClick(1, -1)
    \/ Len(inflight) < MaxInflight /\ SubmitClick
    \/ \E i \in 1..MaxInflight : OrderAccepted(i)
    \/ \E i \in 1..MaxInflight : \E body \in ErrorBodies : OrderRejected(i, body)
    \/ \E i \in 1..MaxInflight : OrderTransportFailure(i)
    \/ Reload

\* the fetch of a request settles: a success status, a failure status with
\* a body that parses or does not, or a throw (308-321)
Answered ==
    \E i \in 1..MaxInflight :
        \/ OrderAccepted(i)
        \/ \E body \in ErrorBodies : OrderRejected(i, body)
        \/ OrderTransportFailure(i)

SpecLive == InitLive /\ [][NextLive]_vars /\ WF_vars(Answered)

\* C22: as long as every request is answered in the end, loading set is
\* followed by loading cleared.
C22_LoadingEventuallyCleared == loading ~> ~loading

\* a request was answered with a body that does not parse, and the order
\* step is back in use with loading cleared
C22_Witness ==
    /\ lastOp = "OrderRejected"
    /\ alertMsg = MsgConnection
    /\ page = "order"
    /\ inflight = <<>>
    /\ ~loading

(***************************************************************************)
(* SpecRoundTrip: the item lines of a cart read back by the admin parser   *)
(***************************************************************************)

\* a name that holds ', '
CatalogComma ==
    <<Product(Str("A"), <<"P", ",", " ", "Q">>, 5), Product(Str("B"), <<"B">>, 3)>>
\* a name that starts with a blank
CatalogBlank == <<Product(Str("A"), <<" ", "A">>, 5), Product(Str("B"), <<"B">>, 3)>>
\* two products of one name
CatalogTwins == <<Product(Str("A"), <<"A">>, 5), Product(Str("B"), <<"A">>, 3)>>

RoundTripCatalogs == {CatalogAB, CatalogNumeric, CatalogComma, CatalogBlank, CatalogTwins}

InitRoundTrip == InitWith({DeepLink})

NextRoundTrip ==
    \/ \E c \in RoundTripCatalogs : FetchProductsDone(c)
    \/ FetchSettingsDone(SettingsAsSeeded)
    \/ UrlSync
    \/ \E i \in 1..2 : AppCanAdd(i) /\ ItemClick(i, 1)
    \/ \E i \in 1..2 : ItemClick(i, -1)
    \/ selectedDate # NoDate /\ StartEditingOrderCall(StoredOrder(1, OrderRequest))
    \/ Reload

SpecRoundTrip == InitRoundTrip /\ [][NextRoundTrip]_vars

\* every key of the cart is the id of a product of the catalog
CartInCatalog ==
    \A k \in ObjKeys(orderData.selectedItems) :
        \E i \in DOMAIN products : String(products[i].id) = k

\* C21 as stated: when the item lines of a cart whose ids are all in the
\* catalog are parsed back by startEditingOrder against that catalog, every
\* product comes out with the quantity it has in the cart.
C21_ItemLinesRoundTrip ==
    [][lastOp' = "startEditingOrder" /\ editingOrder'.items = itemsSummary /\ CartInCatalog =>
          \A i \in DOMAIN products :
              QtyOf(editingItems', products[i].id)
                  = QtyOf(orderData.selectedItems, products[i].id)]_vars

(***************************************************************************)
(* SpecGate: the admin gate                                                *)
(***************************************************************************)

\* the settings with a password saved, and with an empty one
SettingsWithPassword == ObjSet(InitialSettings, "admin_password", "s3cret")
SettingsEmptyPassword == ObjSet(InitialSettings, "admin_password", "")

\* what is typed into the password input
TypedPasswords == {"admin123", "s3cret", "guess"}

\* The most requests of the admin panel followed at once.
MaxAdminCalls == 1

AdminCanCall == Len(adminCalls) < MaxAdminCalls

\* the + button of the i-th product of the edit panel may still be pressed
EditCanAdd(i) == i \in DOMAIN products => QtyOf(editingItems, products[i].id) < MaxQty

InitGate == InitWith({<<>>})

NextGate ==
    \/ FetchProductsDone(CatalogAB)
    \/ \E data \in {SettingsAsSeeded, SettingsWithPassword, SettingsEmptyPassword} :
          FetchSettingsDone(data)
    \/ FetchSettingsFail
    \/ UrlSync
    \/ AdminToggle
    \/ \E value \in TypedPasswords : PasswordChange(value)
    \/ AdminCanCall /\ LoginClick
    \/ handleLogout
    \/ \E tab \in {"orders", "settings"} : AdminTabClick(tab)
    \/ adminTab = "settings" /\ AdminSettingsRefetch(SettingsWithPassword)
    \/ \E i \in 1..MaxAdminCalls : OrderStoreServes(i)
    \/ \E i \in 1..MaxAdminCalls : FetchAdminOrdersDone(i)
    \/ \E i \in 1..MaxAdminCalls : AdminCallThrows(i)
    \/ Reload

SpecGate == InitGate /\ [][NextGate]_vars

\* the password the claim names: admin_password of the settings held, the
\* literal default when it is unset or empty
PasswordInForce ==
    IF \E n \in DOMAIN settings : settings[n].k = "admin_password" /\ settings[n].v # ""
    THEN (CHOOSE e \in {settings[n] : n \in DOMAIN settings} : e.k = "admin_password").v
    ELSE "admin123"

\* C23: the flag is false when the page has just loaded; it becomes true
\* only in a login step whose typed password is the one in force; a login
\* step with another password leaves it false; logout clears it and shows
\* the scheduling step.
C23_AdminGate ==
    /\ [](lastOp \in {"init", "reload", "NewBookingClick"} => ~isAdminAuthenticated)
    /\ [][~isAdminAuthenticated /\ isAdminAuthenticated' =>
             LoginClick /\ adminPassword = PasswordInForce]_vars
    /\ [][LoginClick /\ adminPassword # PasswordInForce => ~isAdminAuthenticated']_vars
    /\ [][handleLogout => ~isAdminAuthenticated' /\ page' = "schedule"]_vars

\* the admin is in by the default password although the settings held carry
\* an admin_password, an empty one
C23_Witness ==
    /\ lastOp = "LoginClick"
    /\ isAdminAuthenticated
    /\ settings = SettingsEmptyPassword
    /\ adminPassword = "admin123"

(***************************************************************************)
(* SpecStore: the admin panel over the Order Store                         *)
(***************************************************************************)

\* '2x A\n1x B'
TwoAOneB == <<"2", "x", " ", "A", "\n", "1", "x", " ", "B">>

\* the order a customer placed earlier: A:2, B:1 at the prices of CatalogAB
SeedRequest ==
    [customer_name |-> "Ana",
     customer_phone |-> WellFormedText,
     order_date |-> formatIso(Monday),
     order_time |-> Slot10,
     items |-> TwoAOneB,
     total |-> 13,
     payment_method |-> "zelle"]

\* ... and the one another customer places meanwhile
LaterRequest ==
    [customer_name |-> "Bia",
     customer_phone |-> WellFormedText,
     order_date |-> formatIso(Monday),
     order_time |-> Slot08,
     items |-> <<"1", "x", " ", "B">>,
     total |-> 3,
     payment_method |-> "cash"]

SeededStore == [nextId |-> 2, orders |-> <<StoredOrder(1, SeedRequest)>>]

\* The most orders the store is followed through.
MaxOrders == 2

\* a product form filled in, and one left without a name
FormFilled == Product(Str("A"), <<"A">>, 6)
FormNameless == Product(Str("A"), <<>>, 6)

InitStore == InitSession({<<>>}) /\ orderStore = SeededStore

NextStore ==
    \/ FetchProductsDone(CatalogAB)
    \/ page # "admin" /\ AdminToggle
    \/ PasswordChange("admin123")
    \/ AdminCanCall /\ LoginClick
    \/ \E tab \in {"orders", "products"} : AdminTabClick(tab)
    \/ \E i \in 1..MaxAdminCalls : OrderStoreServes(i)
    \/ \E i \in 1..MaxAdminCalls : FetchAdminOrdersDone(i)
    \/ \E i \in 1..MaxAdminCalls : AdminCallThrows(i)
    \/ EditOrderClick(1)
    \/ EditCanAdd(1) /\ EditQtyClick(1, 1)
    \/ AdminCanCall /\ SaveOrderClick
    \/ \E i \in 1..MaxAdminCalls : SaveOrderDone(i)
    \/ \E n \in 1..MaxOrders : \E confirmed \in BOOLEAN :
          AdminCanCall /\ DeleteOrderClick(n, confirmed)
    \/ \E i \in 1..MaxAdminCalls : DeleteOrderDone(i)
    \/ \E data \in {FormFilled, FormNameless} : AdminCanCall /\ SaveProductClick(data)
    \/ \E i \in 1..MaxAdminCalls : ProductSaved(i, CatalogRepriced)
    \/ \E i \in 1..MaxAdminCalls : ProductSaveFailed(i)
    \/ \E confirmed \in BOOLEAN : AdminCanCall /\ DeleteProductClick(2, confirmed)
    \/ \E i \in 1..MaxAdminCalls : ProductDeleted(i, CatalogWithoutB)
    \/ \E i \in 1..MaxAdminCalls : ProductDeleteFailed(i)
    \/ orderStore.nextId <= MaxOrders /\ OrderStoreCreate(LaterRequest)
    \/ Reload

SpecStore == InitStore /\ [][NextStore]_vars

\* the steps of the products tab and their answers
ProductOps ==
    {"SaveProductClick", "ProductSaved", "ProductSaveFailed",
     "DeleteProductClick", "ProductDeleted", "ProductDeleteFailed", "fetchProducts"}

\* the requests to the Order Store among calls
OrderCalls(calls) ==
    LET ToOrders(c) == c.kind \in {"update", "delete"} IN SelectSeq(calls, ToOrders)

StoredIds(store) == {store.orders[n].id : n \in DOMAIN store.orders}
StoredAt(store, id) == CHOOSE o \in {store.orders[n] : n \in DOMAIN store.orders} : o.id = id

\* C24: a step of the products tab, or the answer to one, leaves the store
\* as it is and sends it no update or delete; a stored order is replaced
\* only when the store serves an update the admin panel sent for its id, by
\* the record sent, and goes only when the store serves a delete sent for
\* its id.
C24_StoredOrdersKept ==
    /\ [][lastOp' \in ProductOps =>
             /\ orderStore' = orderStore
             /\ OrderCalls(adminCalls') = OrderCalls(adminCalls)]_vars
    /\ [][\A id \in StoredIds(orderStore) :
             /\ id \notin StoredIds(orderStore') =>
                   \E i \in DOMAIN adminCalls :
                       /\ adminCalls[i].kind = "delete"
                       /\ adminCalls[i].arg.id = id
                       /\ lastOp' = "OrderStoreServes"
             /\ (id \in StoredIds(orderStore')
                 /\ StoredAt(orderStore', id) # StoredAt(orderStore, id)) =>
                   \E i \in DOMAIN adminCalls :
                       /\ adminCalls[i].kind = "update"
                       /\ adminCalls[i].arg = StoredAt(orderStore', id)
                       /\ lastOp' = "OrderStoreServes"]_vars

\* the catalog was repriced after the order for 2 A and 1 B was stored, and
\* the store still holds it at 13
C24_Witness ==
    /\ lastOp = "ProductSaved"
    /\ products = CatalogRepriced
    /\ 1 \in StoredIds(orderStore)
    /\ StoredAt(orderStore, 1).items = TwoAOneB
    /\ StoredAt(orderStore, 1).total = 13

(***************************************************************************)
(* SpecEdit: the edit panel of an order                                    *)
(***************************************************************************)

InitEdit == InitSession({<<>>}) /\ orderStore = SeededStore

\* the value typed or chosen in each input of the edit panel
EditValue ==
    [customer_name |-> "Bia",
     customer_phone |-> BareDigits,
     order_date |-> formatIso(Saturday),
     order_time |-> Slot08,
     payment_method |-> "cash"]

NextEdit ==
    \/ \E c \in {CatalogAB, CatalogRepriced} : FetchProductsDone(c)
    \/ FetchSettingsDone(SettingsAsSeeded)
    \/ UrlSync
    \/ AdminToggle
    \/ PasswordChange("admin123")
    \/ AdminCanCall /\ LoginClick
    \/ \E i \in 1..MaxAdminCalls : OrderStoreServes(i)
    \/ \E i \in 1..MaxAdminCalls : FetchAdminOrdersDone(i)
    \/ EditOrderClick(1)
    \/ CloseEditClick
    \/ \E field \in EditFields : EditFieldChange(field, EditValue[field])
    \/ EditTotalChange(1)
    \/ \E i \in 1..2 : EditCanAdd(i) /\ EditQtyClick(i, 1)
    \/ \E i \in 1..2 : EditQtyClick(i, -1)
    \/ Reload

SpecEdit == InitEdit /\ [][NextEdit]_vars

\* C25 as stated: the edit button leaves in editingItems the quantities that
\* parsing the order's items text against the catalog gives, and a + or -
\* pressed for one product then changes that product's line only.
C25_EditStartsFromParsedItems ==
    /\ [][\A n \in DOMAIN adminOrders :
             EditOrderClick(n) => editingItems' = startEditingOrder(adminOrders[n])]_vars
    /\ [][\A i \in DOMAIN products : \A delta \in {1, -1} :
             (EditQtyClick(i, delta) /\ editingOrder.items = TwoAOneB /\ products = CatalogAB) =>
                 editingOrder'.items \in
                     {<<"3", "x", " ", "A", "\n", "1", "x", " ", "B">>,
                      <<"1", "x", " ", "A", "\n", "1", "x", " ", "B">>,
                      <<"2", "x", " ", "A", "\n", "2", "x", " ", "B">>,
                      <<"2", "x", " ", "A">>}]_vars

\* the entries of items with a quantity above 0
PositiveEntries(items) == LET Positive(e) == e.v > 0 IN SelectSeq(items, Positive)

\* C26: a + or - of the edit panel leaves in the buffer the total quantity
\* times current catalog price summed over the new items, and as items text
\* one line per entry of the new items with a quantity above 0; a change of
\* name, phone, date, slot or payment method leaves total and items text as
\* they were.
C26_EditBuffer ==
    /\ [][\A i \in DOMAIN products : \A delta \in {1, -1} :
             EditQtyClick(i, delta) =>
                 /\ editingOrder'.total =
                       SumOverKeys(ObjKeys(editingItems'), editingItems', products)
                 /\ editingOrder'.items =
                       Join([n \in DOMAIN PositiveEntries(editingItems') |->
                                Decimal(PositiveEntries(editingItems')[n].v) \o <<"x", " ">>
                                    \o NameOf(products, PositiveEntries(editingItems')[n].k)],
                            LineBreak)]_vars
    /\ [][\A field \in EditFields :
             EditFieldChange(field, EditValue[field]) =>
                 /\ editingOrder'.total = editingOrder.total
                 /\ editingOrder'.items = editingOrder.items
                 /\ editingOrder'[field] = EditValue[field]]_vars

\* after the catalog was repriced a + was pressed for A in the edit panel:
\* the buffer holds 1 A at the new price, and the name typed before is kept
C26_Witness ==
    /\ lastOp = "EditQtyClick(+1)"
    /\ products = CatalogRepriced
    /\ editingOrder.customer_name = "Bia"
    /\ editingOrder.items = <<"1", "x", " ", "A">>
    /\ editingOrder.total = 6

====
